---- MODULE Spec2Model ----
(***************************************************************************)
(* Resumable pagination of the GA4GH reference server (ga4gh/backend.py):  *)
(* the page-token codec, the interval search iterator, the flat            *)
(* (top-level) object generator and runSearchRequest, driven by a client   *)
(* that submits search requests one after another.                         *)
(***************************************************************************)
EXTENDS Integers, Sequences, FiniteSets, TLC

(***************************************************************************)
(* Bounds of the model.                                                    *)
(***************************************************************************)
\* longest generated interval source (number of objects)
MaxLen == 3
\* largest explicit pageSize a client asks for
MaxPageSize == 3
\* longest flat identifier list
MaxIds == 3
\* longest page token a client makes up from the token alphabet
MaxTokenLen == 4
\* largest size budget of a backend configured with setMaxResponseLength
MaxSmallBudget == 3
\* largest anchor and distance a client encodes into a page token
MaxValue == 12
\* most read group identifiers a reads search names
MaxReadGroups == 2
\* most requests a client makes in one chain
MaxRequests == 6
\* most datasets a repository is given
MaxDatasets == 2
\* most commits made through one repository object
MaxCommits == 2
\* longest reference (number of bases)
MaxBases == 5

(***************************************************************************)
(* Program constants.                                                      *)
(***************************************************************************)
\* AbstractBackend.__init__: self._defaultPageSize = 100
DefaultPageSize == 100
\* AbstractBackend.__init__: self._maxResponseLength = 2**20
DefaultMaxResponseLength == 1048576
\* SimulatedReadGroup._createReadAlignment: gaPosition.position = 0
SimulatedPosition == 0
\* SimulatedReadGroup._createReadAlignment: alignment.alignedSequence = "ACT"
SimulatedLength == 3

\* Python's None, for an object reference (objects are numbered from 1)
NoObject == 0
\* Python's None, for an integer field (pageSize, searchAnchor, ...)
NoneInt == -999
\* Python's None, for a page token (a token is a sequence of characters)
None == <<"None">>

(***************************************************************************)
(* Strings are sequences of one-character strings.                         *)
(***************************************************************************)
Digits == <<"0", "1", "2", "3", "4", "5", "6", "7", "8", "9">>

IsDigit(c) == \E d \in 1..10 : Digits[d] = c

DigitValue(c) == (CHOOSE d \in 1..10 : Digits[d] = c) - 1

\* str(n) / "{}".format(n) of a non-negative integer
RECURSIVE NatToStr(_)
NatToStr(n) ==
    IF n < 10 THEN <<Digits[n + 1]>>
    ELSE NatToStr(n \div 10) \o <<Digits[(n % 10) + 1]>>

\* str(n) / "{}".format(n) of an integer
IntToStr(n) == IF n < 0 THEN <<"-">> \o NatToStr(-n) ELSE NatToStr(n)

\* pageToken.split(":")
RECURSIVE Split(_)
Split(s) ==
    IF s = <<>> THEN << <<>> >>
    ELSE LET rest == Split(Tail(s))
         IN  IF Head(s) = ":" THEN << <<>> >> \o rest
             ELSE << <<Head(s)>> \o Head(rest) >> \o Tail(rest)

\* the value of a non-empty string of digits
RECURSIVE DigitsToNat(_)
DigitsToNat(s) ==
    IF Len(s) = 1 THEN DigitValue(s[1])
    ELSE 10 * DigitsToNat(SubSeq(s, 1, Len(s) - 1)) + DigitValue(s[Len(s)])

AllDigits(s) == s # <<>> /\ \A i \in 1..Len(s) : IsDigit(s[i])

\* whether int(s) succeeds: an optional sign followed by digits
IntAccepts(s) ==
    IF s # <<>> /\ Head(s) \in {"-", "+"} THEN AllDigits(Tail(s))
    ELSE AllDigits(s)

\* int(s), for a string int() accepts
ParseInt(s) ==
    IF Head(s) = "-" THEN 0 - DigitsToNat(Tail(s))
    ELSE IF Head(s) = "+" THEN DigitsToNat(Tail(s))
    ELSE DigitsToNat(s)

\* faulty variant of _parsePageToken: the number of fields is not checked against
\* numValues
_parsePageToken_AnyCount(pageToken, numValues) ==
    LET tokens == Split(pageToken)
    IN  IF \E i \in 1..Len(tokens) : ~IntAccepts(tokens[i])
        THEN [error |-> "BadPageToken", values |-> <<>>]
        ELSE [error |-> "none",
              values |-> [i \in 1..Len(tokens) |-> ParseInt(tokens[i])]]

\* _parsePageToken(pageToken, numValues): the list of integers, or the
\* BadPageTokenException
_parsePageToken(pageToken, numValues) ==
    LET tokens == Split(pageToken)
    IN  IF Len(tokens) # numValues
        THEN [error |-> "BadPageToken", values |-> <<>>]
        ELSE IF \E i \in 1..Len(tokens) : ~IntAccepts(tokens[i])
        THEN [error |-> "BadPageToken", values |-> <<>>]
        ELSE [error |-> "none",
              values |-> [i \in 1..Len(tokens) |-> ParseInt(tokens[i])]]

\* faulty variant of FormatIntervalToken: the distance is written first
FormatIntervalToken_DistanceFirst(anchor, distance) ==
    IntToStr(distance) \o <<":">> \o IntToStr(anchor)

\* "{}:{}".format(searchAnchor, distanceFromAnchor)
FormatIntervalToken(anchor, distance) ==
    IntToStr(anchor) \o <<":">> \o IntToStr(distance)

(***************************************************************************)
(* State.                                                                  *)
(***************************************************************************)
VARIABLES
    \* the container's objects, in the order its search yields them
    \* (non-decreasing start); an object is named by its position
    source,
    \* TRUE for a SimulatedReadGroup, whose search ignores the window
    simulated,
    \* the ordered identifier list of a flat collection
    idList,
    \* AbstractBackend._maxResponseLength
    maxResponseLength,
    \* AbstractBackend._requestValidation and _responseValidation
    validation,
    \* the search the client pages through: kind, start, end
    query,
    \* the request being served (or the last one served)
    request,
    \* where runSearchRequest stands: idle, received, generator, iterating,
    \* finishing
    pc,
    \* the IntervalIterator's fields
    iter,
    \* _topLevelObjectGenerator's currentIndex (NoneInt before its first step)
    currentIndex,
    \* the SearchResponseBuilder
    responseBuilder,
    \* runSearchRequest's local nextPageToken
    nextPageToken,
    \* the outcome of the last request: status, page, nextPageToken
    response,
    \* what the request has done so far: container resolved, page token
    \* parsed, source queried, generator constructed
    probe,
    \* the (object, token) pairs the generator has yielded in this request
    emitted,
    \* the objects of the earlier pages of the chain the client follows
    collected,
    \* TRUE while every request of the chain carried the previous page's token
    following,
    \* how many requests the client has made in the chain it follows
    requests,
    \* how often the running invocation has called startProfile and
    \* endProfile
    profile,
    \* a second invocation (and its client) while it is not the one running:
    \* everything it owns
    parked,
    \* the data repository object: its dataset maps, its open mode, its
    \* database file, and the outcome of the last call made on it
    repo,
    \* the reference whose bases a client lists: its length, the arguments
    \* of the last listReferenceBases request, and the responses so far
    bases

vars == <<source, simulated, idList, maxResponseLength, validation, query,
          request, pc,
          iter, currentIndex, responseBuilder, nextPageToken, response,
          probe, emitted, collected, following, requests, profile, parked, repo,
          bases>>

(***************************************************************************)
(* The interval source.                                                    *)
(***************************************************************************)
\* IntervalIterator._getStart
_getStart(obj) == source[obj].start

\* IntervalIterator._getEnd
_getEnd(obj) == source[obj].end

\* len(protocolElement.toJsonString()): of an interval object, or of an
\* object of a flat collection
SerializedLength(obj) ==
    IF query.kind = "interval" THEN source[obj].size ELSE 1

\* HtslibReadGroup.getReadAlignments: samFile.fetch(referenceId, start, end)
\* yields, in file order, the objects that overlap [start, end)
Fetch(start, end) ==
    SelectSeq([i \in 1..Len(source) |-> i],
              LAMBDA i : source[i].start < end /\ source[i].end > start)

\* SimulatedReadGroup.getReadAlignments: every alignment, whatever the window
SimulatedAlignments(start, end) == [i \in 1..Len(source) |-> i]

\* IntervalIterator._search
_search(start, end) ==
    IF simulated THEN SimulatedAlignments(start, end) ELSE Fetch(start, end)

\* next(iterator, None): the object and the iterator after it
NextOrNone(it) == IF it = <<>> THEN NoObject ELSE Head(it)

Advance(it) == IF it = <<>> THEN <<>> ELSE Tail(it)

(***************************************************************************)
(* IntervalIterator.                                                       *)
(***************************************************************************)
\* the fields after IntervalIterator.__init__ lines 91-95
BlankIterator ==
    [searchIterator |-> <<>>, currentObject |-> NoObject,
     nextObject |-> NoObject, searchAnchor |-> NoneInt,
     distanceFromAnchor |-> NoneInt]

\* faulty variant of _initialiseIteration: the anchor stays at the request's start
\* when the first object starts after it
_initialiseIteration_AnchorAtStart(req) ==
    LET results == _search(req.start, req.end)
        first == NextOrNone(results)
        after == Advance(results)
    IN  IF first = NoObject
        THEN [error |-> "none",
              iter |-> [BlankIterator EXCEPT !.searchIterator = after]]
        ELSE [error |-> "none",
              iter |-> [searchIterator |-> Advance(after),
                        currentObject |-> first,
                        nextObject |-> NextOrNone(after),
                        searchAnchor |-> req.start,
                        distanceFromAnchor |-> 0]]

\* faulty variant of _initialiseIteration: the first next() has no default, so an
\* empty result raises StopIteration
_initialiseIteration_NoDefault(req) ==
    LET results == _search(req.start, req.end)
        after == Advance(results)
    IN  IF results = <<>>
        THEN [error |-> "StopIteration", iter |-> BlankIterator]
        ELSE [error |-> "none",
              iter |-> [searchIterator |-> Advance(after),
                        currentObject |-> Head(results),
                        nextObject |-> NextOrNone(after),
                        searchAnchor |-> IF _getStart(Head(results)) > req.start
                                         THEN _getStart(Head(results))
                                         ELSE req.start,
                        distanceFromAnchor |-> 0]]

\* faulty variant of _initialiseIteration: the anchor is the first object's
\* start even when that start lies before the request's start
_initialiseIteration_AnchorAtFirst(req) ==
    LET results == _search(req.start, req.end)
        first == NextOrNone(results)
        after == Advance(results)
    IN  IF first = NoObject
        THEN [error |-> "none",
              iter |-> [BlankIterator EXCEPT !.searchIterator = after]]
        ELSE [error |-> "none",
              iter |-> [searchIterator |-> Advance(after),
                        currentObject |-> first,
                        nextObject |-> NextOrNone(after),
                        searchAnchor |-> _getStart(first),
                        distanceFromAnchor |-> 0]]

\* IntervalIterator._initialiseIteration: the error it raises ("none": every
\* next() it calls has a default) and the iterator's fields
_initialiseIteration(req) ==
    LET results == _search(req.start, req.end)
        first == NextOrNone(results)
        after == Advance(results)
    IN  IF first = NoObject
        THEN [error |-> "none",
              iter |-> [BlankIterator EXCEPT !.searchIterator = after]]
        ELSE [error |-> "none",
              iter |-> [searchIterator |-> Advance(after),
                        currentObject |-> first,
                        nextObject |-> NextOrNone(after),
                        searchAnchor |-> IF _getStart(first) > req.start
                                         THEN _getStart(first)
                                         ELSE req.start,
                        distanceFromAnchor |-> 0]]

\* the loop "for _ in range(n): obj = next(self._searchIterator)"
RECURSIVE SkipForward(_, _, _)
SkipForward(obj, it, n) ==
    IF n <= 0 THEN [error |-> "none", obj |-> obj, it |-> it]
    ELSE IF it = <<>> THEN [error |-> "StopIteration", obj |-> obj, it |-> it]
    ELSE SkipForward(Head(it), Tail(it), n - 1)

\* faulty variant of SkipBefore: the objects that start before the anchor, seen on
\* earlier pages, are not skipped
SkipBefore_NoDiscard(obj, it, searchAnchor) ==
    [error |-> "none", obj |-> obj, it |-> it]

\* the loop "while self._getStart(obj) < searchAnchor: obj = next(...)"
RECURSIVE SkipBefore(_, _, _)
SkipBefore(obj, it, searchAnchor) ==
    IF _getStart(obj) >= searchAnchor
    THEN [error |-> "none", obj |-> obj, it |-> it]
    ELSE IF it = <<>> THEN [error |-> "StopIteration", obj |-> obj, it |-> it]
    ELSE SkipBefore(Head(it), Tail(it), searchAnchor)

\* faulty variant of SkipAtAnchor: the objects of the tie group already emitted are
\* not skipped
SkipAtAnchor_SkipsNone(obj, it, n, searchAnchor) ==
    [error |-> "none", obj |-> obj, it |-> it]

\* faulty variant of SkipAtAnchor: the skipped objects' starts are not
\* compared with the anchor
SkipAtAnchor_Unchecked(obj, it, n, searchAnchor) == SkipForward(obj, it, n)

\* the loop "for _ in range(n): assert start == searchAnchor; obj = next(...)"
RECURSIVE SkipAtAnchor(_, _, _, _)
SkipAtAnchor(obj, it, n, searchAnchor) ==
    IF n <= 0 THEN [error |-> "none", obj |-> obj, it |-> it]
    ELSE IF _getStart(obj) # searchAnchor
    THEN [error |-> "AssertionError", obj |-> obj, it |-> it]
    ELSE IF it = <<>> THEN [error |-> "StopIteration", obj |-> obj, it |-> it]
    ELSE SkipAtAnchor(Head(it), Tail(it), n - 1, searchAnchor)

\* faulty variant of _pickUpIteration: the results that start before the
\* anchor are discarded, and the skipped ones checked, also when the anchor
\* is the request's start
_pickUpIteration_AlwaysDiscard(req, searchAnchor, objectsToSkip) ==
    LET results == _search(searchAnchor, req.end)
        start == [BlankIterator EXCEPT !.searchAnchor = searchAnchor,
                                       !.distanceFromAnchor = objectsToSkip,
                                       !.searchIterator = results]
    IN  IF results = <<>>
        THEN [error |-> "StopIteration", iter |-> start]
        ELSE LET seen == SkipBefore(Head(results), Tail(results),
                                    searchAnchor)
                 skipped == IF seen.error # "none" THEN seen
                            ELSE SkipAtAnchor(seen.obj, seen.it,
                                              objectsToSkip, searchAnchor)
             IN  IF skipped.error # "none"
                 THEN [error |-> skipped.error,
                       iter |-> [start EXCEPT !.searchIterator = skipped.it]]
                 ELSE [error |-> "none",
                       iter |-> [start EXCEPT
                                   !.currentObject = skipped.obj,
                                   !.nextObject = NextOrNone(skipped.it),
                                   !.searchIterator = Advance(skipped.it)]]

\* IntervalIterator._pickUpIteration: the error it raises ("none" when it
\* returns) and the iterator's fields
_pickUpIteration(req, searchAnchor, objectsToSkip) ==
    LET results == _search(searchAnchor, req.end)
        start == [BlankIterator EXCEPT !.searchAnchor = searchAnchor,
                                       !.distanceFromAnchor = objectsToSkip,
                                       !.searchIterator = results]
    IN  IF results = <<>>
        THEN [error |-> "StopIteration", iter |-> start]
        ELSE LET skipped ==
                   IF searchAnchor = req.start
                   THEN SkipForward(Head(results), Tail(results), objectsToSkip)
                   ELSE LET seen == SkipBefore(Head(results), Tail(results),
                                               searchAnchor)
                        IN  IF seen.error # "none" THEN seen
                            ELSE SkipAtAnchor(seen.obj, seen.it, objectsToSkip,
                                              searchAnchor)
             IN  IF skipped.error # "none"
                 THEN [error |-> skipped.error,
                       iter |-> [start EXCEPT !.searchIterator = skipped.it]]
                 ELSE [error |-> "none",
                       iter |-> [start EXCEPT
                                   !.currentObject = skipped.obj,
                                   !.nextObject = NextOrNone(skipped.it),
                                   !.searchIterator = Advance(skipped.it)]]

\* faulty variant of IteratorNext: the distance is not reset when the anchor moves
IteratorNext_KeepDistance(it) ==
    IF it.currentObject = NoObject
    THEN [stop |-> TRUE, obj |-> NoObject, token |-> None, iter |-> it]
    ELSE LET moved == it.nextObject # NoObject
                      /\ _getStart(it.nextObject) > it.searchAnchor
             anchor == IF moved THEN _getStart(it.nextObject)
                       ELSE it.searchAnchor
             distance == IF it.nextObject = NoObject THEN it.distanceFromAnchor
                         ELSE it.distanceFromAnchor + 1
         IN  [stop |-> FALSE,
              obj |-> it.currentObject,
              token |-> IF it.nextObject = NoObject THEN None
                        ELSE FormatIntervalToken(anchor, distance),
              iter |-> [searchIterator |-> Advance(it.searchIterator),
                        currentObject |-> it.nextObject,
                        nextObject |-> NextOrNone(it.searchIterator),
                        searchAnchor |-> anchor,
                        distanceFromAnchor |-> distance]]

\* faulty variant of IteratorNext: the anchor follows the lookahead object's
\* start also when that start lies before the anchor
IteratorNext_AnchorFollows(it) ==
    IF it.currentObject = NoObject
    THEN [stop |-> TRUE, obj |-> NoObject, token |-> None, iter |-> it]
    ELSE LET moved == it.nextObject # NoObject
                      /\ _getStart(it.nextObject) # it.searchAnchor
             anchor == IF moved THEN _getStart(it.nextObject)
                       ELSE it.searchAnchor
             distance == IF it.nextObject = NoObject THEN it.distanceFromAnchor
                         ELSE IF moved THEN 0
                         ELSE it.distanceFromAnchor + 1
         IN  [stop |-> FALSE,
              obj |-> it.currentObject,
              token |-> IF it.nextObject = NoObject THEN None
                        ELSE FormatIntervalToken(anchor, distance),
              iter |-> [searchIterator |-> Advance(it.searchIterator),
                        currentObject |-> it.nextObject,
                        nextObject |-> NextOrNone(it.searchIterator),
                        searchAnchor |-> anchor,
                        distanceFromAnchor |-> distance]]

\* faulty variant of IteratorNext: when the anchor moves the distance is set
\* to 1
IteratorNext_ResetToOne(it) ==
    IF it.currentObject = NoObject
    THEN [stop |-> TRUE, obj |-> NoObject, token |-> None, iter |-> it]
    ELSE LET moved == it.nextObject # NoObject
                      /\ _getStart(it.nextObject) > it.searchAnchor
             anchor == IF moved THEN _getStart(it.nextObject)
                       ELSE it.searchAnchor
             distance == IF it.nextObject = NoObject THEN it.distanceFromAnchor
                         ELSE IF moved THEN 1
                         ELSE it.distanceFromAnchor + 1
         IN  [stop |-> FALSE,
              obj |-> it.currentObject,
              token |-> IF it.nextObject = NoObject THEN None
                        ELSE FormatIntervalToken(anchor, distance),
              iter |-> [searchIterator |-> Advance(it.searchIterator),
                        currentObject |-> it.nextObject,
                        nextObject |-> NextOrNone(it.searchIterator),
                        searchAnchor |-> anchor,
                        distanceFromAnchor |-> distance]]

\* faulty variant of IteratorNext: the end is signalled as soon as there is
\* no lookahead object, before the last object is yielded
IteratorNext_StopsEarly(it) ==
    IF it.currentObject = NoObject \/ it.nextObject = NoObject
    THEN [stop |-> TRUE, obj |-> NoObject, token |-> None, iter |-> it]
    ELSE LET moved == _getStart(it.nextObject) > it.searchAnchor
             anchor == IF moved THEN _getStart(it.nextObject)
                       ELSE it.searchAnchor
             distance == IF moved THEN 0 ELSE it.distanceFromAnchor + 1
         IN  [stop |-> FALSE,
              obj |-> it.currentObject,
              token |-> FormatIntervalToken(anchor, distance),
              iter |-> [searchIterator |-> Advance(it.searchIterator),
                        currentObject |-> it.nextObject,
                        nextObject |-> NextOrNone(it.searchIterator),
                        searchAnchor |-> anchor,
                        distanceFromAnchor |-> distance]]

\* IntervalIterator.next: stop (StopIteration), else the (object, token) pair
\* and the iterator's fields afterwards
IteratorNext(it) ==
    IF it.currentObject = NoObject
    THEN [stop |-> TRUE, obj |-> NoObject, token |-> None, iter |-> it]
    ELSE LET moved == it.nextObject # NoObject
                      /\ _getStart(it.nextObject) > it.searchAnchor
             anchor == IF it.nextObject = NoObject THEN it.searchAnchor
                       ELSE IF moved THEN _getStart(it.nextObject)
                       ELSE it.searchAnchor
             distance == IF it.nextObject = NoObject THEN it.distanceFromAnchor
                         ELSE IF moved THEN 0
                         ELSE it.distanceFromAnchor + 1
         IN  [stop |-> FALSE,
              obj |-> it.currentObject,
              token |-> IF it.nextObject = NoObject THEN None
                        ELSE FormatIntervalToken(anchor, distance),
              iter |-> [searchIterator |-> Advance(it.searchIterator),
                        currentObject |-> it.nextObject,
                        nextObject |-> NextOrNone(it.searchIterator),
                        searchAnchor |-> anchor,
                        distanceFromAnchor |-> distance]]

(***************************************************************************)
(* _topLevelObjectGenerator.                                               *)
(***************************************************************************)
\* faulty variant of ListItem: the list is read from its end
ListItem_FromEnd(list, index) ==
    list[((Len(list) - 1 - index) % Len(list)) + 1]

\* idList[index] in Python: a negative index counts from the end of the list
ListItem(list, index) ==
    IF index >= 0 THEN list[index + 1] ELSE list[Len(list) + index + 1]

\* whether idList[index] raises IndexError
IndexError(list, index) == index >= Len(list) \/ index < 0 - Len(list)

\* faulty variant of TopLevelStart: the page token is checked and then
\* ignored, the generator starts at index 0
TopLevelStart_FromZero(req) ==
    IF req.pageToken = None THEN [error |-> "none", index |-> 0]
    ELSE LET parsed == _parsePageToken(req.pageToken, 1)
         IN  IF parsed.error # "none"
             THEN [error |-> parsed.error, index |-> NoneInt]
             ELSE [error |-> "none", index |-> 0]

\* the start of the generator's body (lines 361-363), run by its first step
TopLevelStart(req) ==
    IF req.pageToken = None THEN [error |-> "none", index |-> 0]
    ELSE LET parsed == _parsePageToken(req.pageToken, 1)
         IN  IF parsed.error # "none"
             THEN [error |-> parsed.error, index |-> NoneInt]
             ELSE [error |-> "none", index |-> parsed.values[1]]

\* faulty variant of TopLevelNext: the token is issued without asking whether an
\* object remains
TopLevelNext_TokenAlways(list, index) ==
    IF ~(index < Len(list))
    THEN [error |-> "none", stop |-> TRUE, obj |-> NoObject, token |-> None,
          index |-> index]
    ELSE IF IndexError(list, index)
    THEN [error |-> "IndexError", stop |-> TRUE, obj |-> NoObject,
          token |-> None, index |-> index]
    ELSE [error |-> "none", stop |-> FALSE, obj |-> ListItem(list, index),
          token |-> IntToStr(index + 1), index |-> index + 1]

\* faulty variant of TopLevelNext: the token is the index of the object it
\* comes with, not of the one after it
TopLevelNext_SameIndex(list, index) ==
    IF ~(index < Len(list))
    THEN [error |-> "none", stop |-> TRUE, obj |-> NoObject, token |-> None,
          index |-> index]
    ELSE IF IndexError(list, index)
    THEN [error |-> "IndexError", stop |-> TRUE, obj |-> NoObject,
          token |-> None, index |-> index]
    ELSE [error |-> "none", stop |-> FALSE, obj |-> ListItem(list, index),
          token |-> IF index + 1 < Len(list) THEN IntToStr(index)
                    ELSE None,
          index |-> index + 1]

\* one step of _topLevelObjectGenerator from currentIndex = index (lines
\* 364-371): stop, an error, or the (object, token) pair and the next index
TopLevelNext(list, index) ==
    IF ~(index < Len(list))
    THEN [error |-> "none", stop |-> TRUE, obj |-> NoObject, token |-> None,
          index |-> index]
    ELSE IF IndexError(list, index)
    THEN [error |-> "IndexError", stop |-> TRUE, obj |-> NoObject,
          token |-> None, index |-> index]
    ELSE [error |-> "none", stop |-> FALSE, obj |-> ListItem(list, index),
          token |-> IF index + 1 < Len(list) THEN IntToStr(index + 1)
                    ELSE None,
          index |-> index + 1]

(***************************************************************************)
(* protocol.SearchResponseBuilder.                                         *)
(***************************************************************************)
\* SearchResponseBuilder(responseClass, pageSize, maxResponseLength)
SearchResponseBuilder(pageSize, maxLength) ==
    [pageSize |-> pageSize, maxResponseLength |-> maxLength,
     values |-> <<>>, responseLength |-> 0, overBudget |-> FALSE]

\* addValue: an object that would take the page over the size budget is left
\* out
addValue(builder, obj) ==
    IF builder.responseLength + SerializedLength(obj)
         > builder.maxResponseLength
    THEN [builder EXCEPT !.overBudget = TRUE]
    ELSE [builder EXCEPT !.values = Append(@, obj),
                         !.responseLength = @ + SerializedLength(obj)]

\* isFull
isFull(builder) ==
    Len(builder.values) >= builder.pageSize \/ builder.overBudget

(***************************************************************************)
(* Initial states: the data behind the backend and the client's query.     *)
(***************************************************************************)
Coords == {0, 1, 2}

CoordEnd == 3

\* intervals [start, end) over the coordinates: a short one and one that
\* reaches to the end of the reference
Intervals ==
    {[start |-> s, end |-> e, size |-> 1] : s \in Coords, e \in {CoordEnd}}
    \cup {[start |-> s, end |-> s + 1, size |-> 1] : s \in Coords}

SortedByStart(seq) ==
    \A i \in 1..(Len(seq) - 1) : seq[i].start <= seq[i + 1].start

GeneratedSources ==
    UNION {{seq \in [1..n -> Intervals] : SortedByStart(seq)} : n \in 0..MaxLen}

Windows ==
    {[start |-> s, end |-> e] : s \in Coords, e \in {CoordEnd - 1, CoordEnd}}
    \cup {[start |-> 0, end |-> 0]}

\* the source of the tie-handling example: starts 5, 5, 5, 7
TieSource ==
    << [start |-> 5, end |-> 6, size |-> 1], [start |-> 5, end |-> 6, size |-> 1],
       [start |-> 5, end |-> 6, size |-> 1], [start |-> 7, end |-> 8, size |-> 1] >>

\* the source of the end-to-end example: starts 10, 10, 20, 20, 20
EndToEndSource ==
    << [start |-> 10, end |-> 11, size |-> 1], [start |-> 10, end |-> 11, size |-> 1],
       [start |-> 20, end |-> 21, size |-> 1], [start |-> 20, end |-> 21, size |-> 1],
       [start |-> 20, end |-> 21, size |-> 1] >>

ExampleWindows == {[start |-> 0, end |-> 21], [start |-> 5, end |-> 21],
                   [start |-> 10, end |-> 21]}

\* a SimulatedReadGroup with n alignments
SimulatedSource(n) ==
    [i \in 1..n |-> [start |-> SimulatedPosition,
                     end |-> SimulatedPosition + SimulatedLength, size |-> 1]]

\* an identifier list of n objects (identifiers differ from list positions)
IdList(n) == [i \in 1..n |-> n + 1 - i]

NoRequest ==
    [kind |-> "none", start |-> 0, end |-> 0, pageToken |-> None,
     pageSize |-> NoneInt, containerId |-> "known", payload |-> "valid",
     reads |-> FALSE, readGroupIds |-> <<>>, referenceId |-> None]

\* AbstractBackend.__init__: both validations are off
NoValidation == [request |-> FALSE, response |-> FALSE]

NoResponse == [status |-> "none", page |-> <<>>, nextPageToken |-> None]

NoProbe == [resolved |-> FALSE, parsed |-> FALSE, queried |-> FALSE,
            constructed |-> FALSE]

\* no hook was called
NoProfile == [started |-> 0, ended |-> 0]

\* startProfile and endProfile do nothing (lines 314-325); the calls are
\* counted
startProfile(calls) == [calls EXCEPT !.started = @ + 1]

endProfile(calls) == [calls EXCEPT !.ended = @ + 1]

\* an invocation that has not been given a request
FreshLocals ==
    [request |-> NoRequest, pc |-> "idle", iter |-> BlankIterator,
     currentIndex |-> NoneInt,
     responseBuilder |-> SearchResponseBuilder(NoneInt, NoneInt),
     nextPageToken |-> None, response |-> NoResponse, probe |-> NoProbe,
     emitted |-> <<>>, collected |-> <<>>, following |-> TRUE,
     requests |-> 0, profile |-> NoProfile]

(***************************************************************************)
(* The data repository (datarepo.py).  A dataset is the triple the Dataset *)
(* table keeps: id, name (its local id) and description.  The database     *)
(* file outlives the repository object's connections: whether its tables   *)
(* exist, the rows of its Dataset table, and the commits made since the start. *)
(***************************************************************************)
MODE_READ == "r"
MODE_WRITE == "w"

Dataset(id, name, description) ==
    [id |-> id, localId |-> name, description |-> description]

\* the datasets callers add: two under one name and one id, one under the
\* same name and another id, one under another name
Datasets ==
    { Dataset("id1", "name1", "first"), Dataset("id1", "name1", "second"),
      Dataset("id2", "name1", "first"), Dataset("id2", "name2", "first") }

\* the names and ids callers ask for: those above and one no dataset has
DatasetNames == {"name1", "name2", "name3"}
DatasetIds == {"id1", "id2", "id3"}

NoDataset == Dataset("", "", "")

\* a database file nothing was written to
NewFile == [tables |-> FALSE, rows |-> <<>>, commits |-> 0]

\* the database files a repository object is constructed over
StoredFiles ==
    { NewFile,
      [tables |-> TRUE, rows |-> <<>>, commits |-> 0],
      [tables |-> TRUE, rows |-> <<Dataset("id1", "name1", "first")>>,
       commits |-> 0],
      [tables |-> TRUE,
       rows |-> <<Dataset("id1", "name1", "first"),
                  Dataset("id1", "name1", "second")>>,
       commits |-> 0] }

\* what a call on the repository did: the exception it raised ("none" when
\* it returned) and the dataset it returned
Outcome(call, arg, error, value) ==
    [call |-> call, arg |-> arg, error |-> error, value |-> value]

NoCall == Outcome("none", "", "none", NoDataset)

EmptyMap == [key \in {} |-> NoDataset]

\* dict[key] = value
Put(map, key, value) ==
    [k \in DOMAIN map \cup {key} |-> IF k = key THEN value ELSE map[k]]

\* AbstractDataRepository.__init__ and SqlDataRepository.__init__ over a
\* database file.  added lists the datasets given to addDataset, in order,
\* and wasOpened tells whether open() ever succeeded: neither is a field of
\* the object, both are kept to state properties of it.
SqlDataRepository(file) ==
    [_datasetIdMap |-> EmptyMap, _datasetNameMap |-> EmptyMap,
     _datasetIds |-> <<>>, _openMode |-> "None", _dbConnection |-> "None",
     db |-> file, added |-> <<>>, wasOpened |-> FALSE, outcome |-> NoCall]

\* faulty variant of addDataset: a name that is taken keeps its dataset
addDataset_KeepsFirst(r, dataset) ==
    [r EXCEPT
       !._datasetIdMap = Put(@, dataset.id, dataset),
       !._datasetNameMap = IF dataset.localId \in DOMAIN @ THEN @
                           ELSE Put(@, dataset.localId, dataset),
       !._datasetIds = Append(@, dataset.id),
       !.added = Append(@, dataset)]

addDataset(r, dataset) ==
    [r EXCEPT
       !._datasetIdMap = Put(@, dataset.id, dataset),
       !._datasetNameMap = Put(@, dataset.localId, dataset),
       !._datasetIds = Append(@, dataset.id),
       !.added = Append(@, dataset)]

getDataset(r, id) ==
    IF id \notin DOMAIN r._datasetIdMap
    THEN Outcome("getDataset", id, "DatasetNotFoundException", NoDataset)
    ELSE Outcome("getDataset", id, "none", r._datasetIdMap[id])

getDatasetByName(r, name) ==
    IF name \notin DOMAIN r._datasetNameMap
    THEN Outcome("getDatasetByName", name, "DatasetNameNotFoundException",
                 NoDataset)
    ELSE Outcome("getDatasetByName", name, "none", r._datasetNameMap[name])

\* faulty variant of _checkWriteMode: any open mode passes
_checkWriteMode_AnyOpen(r) == r._openMode # "None"

\* _checkWriteMode: TRUE when it returns, FALSE when it raises ValueError
_checkWriteMode(r) == r._openMode = MODE_WRITE

\* _readDatasetTable: addDataset for every row of the Dataset table
RECURSIVE _readDatasetTable(_, _)
_readDatasetTable(r, rows) ==
    IF rows = <<>> THEN r
    ELSE _readDatasetTable(addDataset(r, Head(rows)), Tail(rows))

\* load: reading a file without tables fails in the first SELECT
load(r) ==
    IF ~r.db.tables
    THEN [r EXCEPT !.outcome = Outcome("open", MODE_READ,
                                       "OperationalError", NoDataset)]
    ELSE [_readDatasetTable(r, r.db.rows) EXCEPT
            !.outcome = Outcome("open", MODE_READ, "none", NoDataset)]

open(r, mode) ==
    IF mode \notin {MODE_READ, MODE_WRITE}
    THEN [r EXCEPT !.outcome = Outcome("open", mode, "ValueError", NoDataset)]
    ELSE LET opened == [r EXCEPT !._openMode = mode,
                                 !._dbConnection = "connected",
                                 !.wasOpened = TRUE]
         IN  IF mode = MODE_READ THEN load(opened)
             ELSE [opened EXCEPT
                     !.outcome = Outcome("open", mode, "none", NoDataset)]

commit(r) ==
    IF ~_checkWriteMode(r)
    THEN [r EXCEPT !.outcome = Outcome("commit", "", "ValueError", NoDataset)]
    ELSE [r EXCEPT !.db.commits = @ + 1,
                   !.outcome = Outcome("commit", "", "none", NoDataset)]

close(r) ==
    IF r._openMode = "None"
    THEN [r EXCEPT !.outcome = Outcome("close", "", "ValueError", NoDataset)]
    ELSE [r EXCEPT !._openMode = "None", !._dbConnection = "None",
                   !.outcome = Outcome("close", "", "none", NoDataset)]

\* initialise: CREATE TABLE on a file that has the tables fails
initialise(r) ==
    IF ~_checkWriteMode(r)
    THEN [r EXCEPT !.outcome = Outcome("initialise", "", "ValueError",
                                       NoDataset)]
    ELSE IF r.db.tables
    THEN [r EXCEPT !.outcome = Outcome("initialise", "", "OperationalError",
                                       NoDataset)]
    ELSE [r EXCEPT !.db.tables = TRUE,
                   !.outcome = Outcome("initialise", "", "none", NoDataset)]

(***************************************************************************)
(* Reference bases (runListReferenceBases).  Request arguments arrive as   *)
(* strings; an absent argument is None.                                    *)
(***************************************************************************)
\* a reference of the given length
ReferenceSequence(length) ==
    [i \in 1..length |-> <<"A", "C", "G", "T">>[((i * i) % 4) + 1]]

\* reference.getBases(start, end): the bases at positions start..end-1
getBases(length, start, end) ==
    SubSeq(ReferenceSequence(length), start + 1, end)

BasesResponse(error, offset, sequence, token) ==
    [error |-> error, offset |-> offset, sequence |-> sequence,
     nextPageToken |-> token]

BasesError(error) == BasesResponse(error, NoneInt, <<>>, None)

BasesArgs(id, start, end, pageToken) ==
    [id |-> id, start |-> start, end |-> end, pageToken |-> pageToken]

\* no listReferenceBases request was made
NoBases ==
    [length |-> 0, args |-> BasesArgs("known", None, None, None),
     responses |-> <<>>]

\* _parseIntegerArgument(args, key, defaultValue)
_parseIntegerArgument(arg, defaultValue) ==
    IF arg = None THEN [error |-> "none", value |-> defaultValue]
    ELSE IF ~IntAccepts(arg)
    THEN [error |-> "BadRequestInteger", value |-> NoneInt]
    ELSE [error |-> "none", value |-> ParseInt(arg)]

\* faulty variant of BasesChunk: a token is also issued when the chunk
\* ends at the range's end
BasesChunk_TokenAtEnd(length, chunkSize, start, end) ==
    IF start + chunkSize <= end
    THEN BasesResponse("none", start,
                       getBases(length, start, start + chunkSize),
                       IntToStr(start + chunkSize))
    ELSE BasesResponse("none", start, getBases(length, start, end), None)

\* the chunk and the token, from the parsed range
BasesChunk(length, chunkSize, start, end) ==
    IF start + chunkSize < end
    THEN BasesResponse("none", start,
                       getBases(length, start, start + chunkSize),
                       IntToStr(start + chunkSize))
    ELSE BasesResponse("none", start, getBases(length, start, end), None)

runListReferenceBases(length, chunkSize, args) ==
    LET start == _parseIntegerArgument(args.start, 0)
        end == _parseIntegerArgument(args.end, length)
        parsed == _parsePageToken(args.pageToken, 1)
    IN  IF args.id # "known" THEN BasesError("ReferenceSetNotFound")
        ELSE IF start.error # "none" THEN BasesError(start.error)
        ELSE IF end.error # "none" THEN BasesError(end.error)
        ELSE IF args.pageToken = None
        THEN BasesChunk(length, chunkSize, start.value, end.value)
        ELSE IF parsed.error # "none" THEN BasesError(parsed.error)
        ELSE BasesChunk(length, chunkSize, parsed.values[1], end.value)

\* the chunk sizes a backend is configured with
ChunkSizes == (1..MaxSmallBudget) \cup {DefaultMaxResponseLength}

\* the start and end arguments clients send: absent, a position of the
\* reference, or not an integer
PositionArgs(length) == {None, <<"x">>} \cup {IntToStr(i) : i \in 0..length}

\* whether the arguments name a range the reference holds
RangeInReference(length, args) ==
    LET start == _parseIntegerArgument(args.start, 0)
        end == _parseIntegerArgument(args.end, length)
    IN  (start.error = "none" /\ end.error = "none")
           => (0 <= start.value /\ start.value <= end.value
                 /\ end.value <= length)

InitInvocation ==
    /\ parked = FreshLocals
    /\ request = NoRequest
    /\ pc = "idle"
    /\ iter = BlankIterator
    /\ currentIndex = NoneInt
    /\ responseBuilder = SearchResponseBuilder(NoneInt, NoneInt)
    /\ nextPageToken = None
    /\ response = NoResponse
    /\ probe = NoProbe
    /\ emitted = <<>>
    /\ collected = <<>>
    /\ following = TRUE
    /\ requests = 0
    /\ profile = NoProfile

\* no call is made on the repository while requests run
InitRequestState ==
    /\ InitInvocation
    /\ repo = SqlDataRepository(NewFile)
    /\ bases = NoBases

InitData ==
    \/ /\ source \in GeneratedSources
       /\ simulated = FALSE
       /\ idList = <<>>
       /\ \E w \in Windows :
            query = [kind |-> "interval", start |-> w.start, end |-> w.end]
    \/ /\ source \in {TieSource, EndToEndSource}
       /\ simulated = FALSE
       /\ idList = <<>>
       /\ \E w \in ExampleWindows :
            query = [kind |-> "interval", start |-> w.start, end |-> w.end]
    \/ /\ \E n \in 0..MaxLen : source = SimulatedSource(n)
       /\ simulated = TRUE
       /\ idList = <<>>
       /\ \E w \in Windows :
            query = [kind |-> "interval", start |-> w.start, end |-> w.end]
    \/ /\ source = <<>>
       /\ simulated = FALSE
       /\ \E n \in 0..MaxIds : idList = IdList(n)
       /\ query = [kind |-> "flat", start |-> 0, end |-> 0]

\* the backend as AbstractBackend.__init__ configures it
Init ==
    /\ InitData
    /\ maxResponseLength = DefaultMaxResponseLength
    /\ validation = NoValidation
    /\ InitRequestState

(***************************************************************************)
(* The client: it opens with one request and then pages on with the tokens *)
(* it is given. Requests share nothing, so one chain per behaviour shows   *)
(* every request a client can make.                                        *)
(***************************************************************************)
data == <<source, simulated, idList, maxResponseLength, validation, query,
          repo, bases>>

\* the pageSize values a client sends: absent, not positive, positive
PageSizes == {NoneInt, -1, 0} \cup (1..MaxPageSize)

\* page tokens a client makes up rather than copies from a response
ForgedTokens ==
    {FormatIntervalToken(a, d) : a \in Coords, d \in 0..2}
    \cup {IntToStr(n) : n \in {1, 5}}
    \cup { <<>>, <<"-", "1">>, <<"1", ":">>, <<"0", ":", "x">>,
           <<"0", ":", "0", ":", "0">>, <<"-", "1", ":", "0">>,
           <<"0", ":", "-", "1">> }

\* the reference a reads search names
Reference == <<"1">>

\* faulty variant of Arrive: nextPageToken is not set to None (line 520) and
\* keeps the value the previous request of this client left
Arrive_KeepsToken(req) ==
    /\ pc = "idle"
    /\ request' = req
    /\ pc' = "received"
    /\ iter' = BlankIterator
    /\ currentIndex' = NoneInt
    /\ responseBuilder' = SearchResponseBuilder(NoneInt, NoneInt)
    /\ response' = NoResponse
    /\ probe' = NoProbe
    /\ emitted' = <<>>
    /\ profile' = NoProfile
    /\ UNCHANGED <<data, parked, nextPageToken>>

\* a request arrives at runSearchRequest; everything a request owns is new
Arrive(req) ==
    /\ pc = "idle"
    /\ request' = req
    /\ pc' = "received"
    /\ iter' = BlankIterator
    /\ currentIndex' = NoneInt
    /\ responseBuilder' = SearchResponseBuilder(NoneInt, NoneInt)
    /\ nextPageToken' = None
    /\ response' = NoResponse
    /\ probe' = NoProbe
    /\ emitted' = <<>>
    /\ profile' = NoProfile
    /\ UNCHANGED <<data, parked>>

\* a well-formed request for the client's query: a reads search (over a
\* read group) names its one read group and a reference
TypedRequest(token, pageSize, containerId) ==
    [kind |-> query.kind, start |-> query.start, end |-> query.end,
     pageToken |-> token, pageSize |-> pageSize,
     containerId |-> containerId, payload |-> "valid",
     reads |-> simulated, readGroupIds |-> <<containerId>>,
     referenceId |-> Reference]

NewRequest(token, pageSize, containerId) ==
    Arrive(TypedRequest(token, pageSize, containerId))

\* the first page of the query: no page token
SubmitFirst ==
    /\ request = NoRequest
    /\ \E ps \in PageSizes : NewRequest(None, ps, "known")
    /\ collected' = <<>>
    /\ following' = TRUE
    /\ requests' = 1

\* the next page: the token of the previous response, copied verbatim
FollowToken ==
    /\ response.status = "ok"
    /\ response.nextPageToken # None
    /\ requests < MaxRequests
    /\ \E ps \in PageSizes : NewRequest(response.nextPageToken, ps, "known")
    /\ requests' = requests + 1
    /\ UNCHANGED <<collected, following>>

\* a request with a token the client made up
SubmitForged ==
    /\ request = NoRequest
    /\ \E token \in ForgedTokens, ps \in {NoneInt, 1} :
           NewRequest(token, ps, "known")
    /\ collected' = <<>>
    /\ following' = FALSE
    /\ requests' = 1

\* a request that names a container the backend does not hold
SubmitUnknownContainer ==
    /\ request = NoRequest
    /\ \E token \in ForgedTokens \cup {None} :
           NewRequest(token, NoneInt, "unknown")
    /\ collected' = <<>>
    /\ following' = FALSE
    /\ requests' = 1

(***************************************************************************)
(* runSearchRequest.                                                       *)
(***************************************************************************)
\* an exception leaves runSearchRequest: no page is returned
Raise(exception) ==
    /\ response' = [status |-> exception, page |-> <<>>,
                    nextPageToken |-> None]
    /\ pc' = "idle"

\* lines 514-515: the default page size stands in for an absent one
EffectivePageSize(pageSize) ==
    IF pageSize = NoneInt THEN DefaultPageSize ELSE pageSize

\* faulty variant of PageSizeRejected: a pageSize of 0 passes
PageSizeRejected_NegativeOnly(pageSize) == pageSize < 0

\* line 516: the BadPageSizeException condition
PageSizeRejected(pageSize) == pageSize <= 0

\* faulty variant of RequestFailure: pageSize is checked before the payload
RequestFailure_PageSizeFirst(req) ==
    IF PageSizeRejected(EffectivePageSize(req.pageSize)) THEN "BadPageSize"
    ELSE IF req.payload = "malformed" THEN "InvalidJson"
    ELSE IF validation.request /\ req.payload = "invalid"
    THEN "RequestValidationFailure"
    ELSE "none"

\* lines 508-517: the exception raised before the builder is made ("none"
\* when the request passes): json.loads, validateRequest, the pageSize check
RequestFailure(req) ==
    IF req.payload = "malformed" THEN "InvalidJson"
    ELSE IF validation.request /\ req.payload = "invalid"
    THEN "RequestValidationFailure"
    ELSE IF PageSizeRejected(EffectivePageSize(req.pageSize))
    THEN "BadPageSize"
    ELSE "none"

\* lines 507-519: startProfile, parse the request, check pageSize, make the
\* builder
ParseRequest ==
    /\ pc = "received"
    /\ profile' = startProfile(profile)
    /\ LET pageSize == EffectivePageSize(request.pageSize)
           failure == RequestFailure(request)
       IN  /\ request' = IF failure \in {"InvalidJson",
                                         "RequestValidationFailure"}
                         THEN request
                         ELSE [request EXCEPT !.pageSize = pageSize]
           /\ IF failure # "none"
              THEN /\ Raise(failure)
                   /\ UNCHANGED responseBuilder
              ELSE /\ responseBuilder' =
                          SearchResponseBuilder(pageSize, maxResponseLength)
                   /\ pc' = "generator"
                   /\ UNCHANGED response
    /\ UNCHANGED <<data, parked, iter, currentIndex, nextPageToken, probe, emitted,
                   collected, following, requests>>

\* _safeMapQuery(idMap, id_, exceptionClass): the exception it raises ("none"
\* when the key is present); exceptionClass "None" selects the default
_safeMapQuery(id, exceptionClass) ==
    IF id = "known" THEN "none"
    ELSE IF exceptionClass = "None" THEN "ObjectWithIdNotFound"
    ELSE exceptionClass

\* the exceptions raised for an identifier that does not resolve
NotFoundKind ==
    {"ObjectWithIdNotFound", "VariantSetNotFound", "ReadGroupNotFound",
     "DatasetNotFound"}

\* ReadsIntervalIterator._getContainer and VariantsIntervalIterator.
\* _getContainer: the exception raised, "none" when the container resolves
_getContainer(req) ==
    IF req.reads
    THEN IF Len(req.readGroupIds) # 1 THEN "NotImplemented"
         ELSE _safeMapQuery(req.readGroupIds[1], "ReadGroupNotFound")
    ELSE _safeMapQuery(req.containerId, "VariantSetNotFound")

\* faulty variant of IntervalIterator: the page token is parsed before the
\* container is resolved
IntervalIterator_TokenFirst(req) ==
    IF req.pageToken # None /\ _parsePageToken(req.pageToken, 2).error # "none"
    THEN [error |-> "BadPageToken", iter |-> BlankIterator,
          probe |-> [NoProbe EXCEPT !.parsed = TRUE]]
    ELSE IF _getContainer(req) # "none"
    THEN [error |-> _getContainer(req), iter |-> BlankIterator,
          probe |-> NoProbe]
    ELSE IF req.pageToken = None
    THEN LET started == _initialiseIteration(req)
         IN  [error |-> started.error, iter |-> started.iter,
              probe |-> [resolved |-> TRUE, parsed |-> FALSE,
                         queried |-> TRUE,
                         constructed |-> started.error = "none"]]
    ELSE LET parsed == _parsePageToken(req.pageToken, 2)
             picked == _pickUpIteration(req, parsed.values[1],
                                        parsed.values[2])
         IN  [error |-> picked.error, iter |-> picked.iter,
              probe |-> [resolved |-> TRUE, parsed |-> TRUE,
                         queried |-> TRUE,
                         constructed |-> picked.error = "none"]]

\* IntervalIterator.__init__: the exception it raises ("none" when it
\* returns), the iterator's fields and what it has done
IntervalIterator(req) ==
    IF _getContainer(req) # "none"
    THEN [error |-> _getContainer(req), iter |-> BlankIterator,
          probe |-> NoProbe]
    ELSE IF req.pageToken = None
    THEN LET started == _initialiseIteration(req)
         IN  [error |-> started.error, iter |-> started.iter,
              probe |-> [resolved |-> TRUE, parsed |-> FALSE,
                         queried |-> TRUE,
                         constructed |-> started.error = "none"]]
    ELSE LET parsed == _parsePageToken(req.pageToken, 2)
         IN  IF parsed.error # "none"
             THEN [error |-> parsed.error, iter |-> BlankIterator,
                   probe |-> [resolved |-> TRUE, parsed |-> TRUE,
                              queried |-> FALSE, constructed |-> FALSE]]
             ELSE LET picked == _pickUpIteration(req, parsed.values[1],
                                                 parsed.values[2])
                  IN  [error |-> picked.error, iter |-> picked.iter,
                       probe |-> [resolved |-> TRUE, parsed |-> TRUE,
                                  queried |-> TRUE,
                                  constructed |-> picked.error = "none"]]

\* a generator method for a flat collection (variantSetsGenerator, ...): the
\* container is looked up, the generator's body has not started
TopLevelGenerator(req) ==
    IF _safeMapQuery(req.containerId, "DatasetNotFound") # "none"
    THEN [error |-> "DatasetNotFound", iter |-> BlankIterator,
          probe |-> NoProbe]
    ELSE [error |-> "none", iter |-> BlankIterator,
          probe |-> [resolved |-> TRUE, parsed |-> FALSE, queried |-> FALSE,
                     constructed |-> TRUE]]

\* faulty variant of readsGenerator: of several read groups the first is
\* searched
readsGenerator_FirstGroup(req) ==
    IF req.referenceId = None
    THEN [error |-> "UnmappedReadsNotSupported", iter |-> BlankIterator,
          probe |-> NoProbe]
    ELSE IF req.readGroupIds = <<>>
    THEN [error |-> "NotImplemented", iter |-> BlankIterator,
          probe |-> NoProbe]
    ELSE IntervalIterator(
             [req EXCEPT !.readGroupIds = <<req.readGroupIds[1]>>])

\* readsGenerator: the checks of lines 435-439, then the
\* ReadsIntervalIterator
readsGenerator(req) ==
    IF req.referenceId = None
    THEN [error |-> "UnmappedReadsNotSupported", iter |-> BlankIterator,
          probe |-> NoProbe]
    ELSE IF Len(req.readGroupIds) # 1
    THEN [error |-> "NotImplemented", iter |-> BlankIterator,
          probe |-> NoProbe]
    ELSE IntervalIterator(req)

\* the generator method runSearchRequest was given for the request
objectGenerator(req) ==
    IF req.kind # "interval" THEN TopLevelGenerator(req)
    ELSE IF req.reads THEN readsGenerator(req)
    ELSE IntervalIterator(req)

\* line 521: objectGenerator(request)
ConstructGenerator ==
    /\ pc = "generator"
    /\ \E made \in {objectGenerator(request)} :
           /\ iter' = made.iter
           /\ probe' = made.probe
           /\ IF made.error # "none"
              THEN Raise(made.error)
              ELSE pc' = "iterating" /\ UNCHANGED response
    /\ UNCHANGED <<data, parked, request, currentIndex, responseBuilder,
                   nextPageToken, emitted, collected, following, requests,
                   profile>>

\* faulty variant of LoopBreaks: the loop goes on after the builder is full
LoopBreaks_Never(builder) == FALSE

\* lines 523-524: "if responseBuilder.isFull(): break"
LoopBreaks(builder) == isFull(builder)

\* next(generator) for the generator of request req in the state (it,
\* index): an error, stop, or the (object, token) pair, with the generator's
\* state afterwards and whether the step parsed the page token
GeneratorStep(req, it, index) ==
    IF req.kind = "interval"
    THEN LET step == IteratorNext(it)
         IN  [error |-> "none", stop |-> step.stop, obj |-> step.obj,
              token |-> step.token, iter |-> step.iter, index |-> NoneInt,
              parsed |-> FALSE]
    ELSE LET started == IF index = NoneInt THEN TopLevelStart(req)
                        ELSE [error |-> "none", index |-> index]
         IN  IF started.error # "none"
             THEN [error |-> started.error, stop |-> TRUE, obj |-> NoObject,
                   token |-> None, iter |-> it, index |-> NoneInt,
                   parsed |-> TRUE]
             ELSE LET step == TopLevelNext(idList, started.index)
                  IN  [error |-> step.error, stop |-> step.stop,
                       obj |-> step.obj, token |-> step.token, iter |-> it,
                       index |-> step.index,
                       parsed |-> req.pageToken # None]

\* next(generator) for the request being served
GeneratorNext ==
    LET step == GeneratorStep(request, iter, currentIndex)
    IN  [step EXCEPT !.parsed = probe.parsed \/ step.parsed]

\* lines 521-524: one turn of the loop over the generator
PullNext ==
    /\ pc = "iterating"
    /\ \E step \in {GeneratorNext} :
           /\ iter' = step.iter
           /\ currentIndex' = step.index
           /\ probe' = [probe EXCEPT !.parsed = step.parsed]
           /\ IF step.error # "none"
              THEN /\ Raise(step.error)
                   /\ UNCHANGED <<responseBuilder, nextPageToken, emitted>>
              ELSE IF step.stop
              THEN /\ pc' = "finishing"
                   /\ UNCHANGED <<responseBuilder, nextPageToken, emitted,
                                  response>>
              ELSE LET added == addValue(responseBuilder, step.obj)
                   IN  /\ responseBuilder' = added
                       /\ nextPageToken' = step.token
                       /\ emitted' = Append(emitted, <<step.obj, step.token>>)
                       /\ pc' = IF LoopBreaks(added) THEN "finishing"
                                ELSE "iterating"
                       /\ UNCHANGED response
    /\ UNCHANGED <<data, parked, request, collected, following, requests,
                   profile>>

\* validateResponse: what responseClass.validate may answer; it is asked
\* only when response validation is on
ValidateOutcomes == IF validation.response THEN BOOLEAN ELSE {TRUE}

\* lines 525-529: set the token, serialize, validate, endProfile, return
\* the page
ReturnPage ==
    /\ pc = "finishing"
    /\ \E valid \in ValidateOutcomes :
          IF valid
          THEN /\ response' = [status |-> "ok",
                               page |-> responseBuilder.values,
                               nextPageToken |-> nextPageToken]
               /\ collected' = collected \o responseBuilder.values
               /\ profile' = endProfile(profile)
               /\ pc' = "idle"
          ELSE /\ Raise("ResponseValidationFailure")
               /\ UNCHANGED <<collected, profile>>
    /\ UNCHANGED <<data, parked, request, iter, currentIndex, responseBuilder,
                   nextPageToken, probe, emitted, following, requests>>

Next ==
    \/ SubmitFirst
    \/ FollowToken
    \/ SubmitForged
    \/ SubmitUnknownContainer
    \/ ParseRequest
    \/ ConstructGenerator
    \/ PullNext
    \/ ReturnPage

Spec == Init /\ [][Next]_vars

(***************************************************************************)
(* The page-token codec under every short string: a client that opens with *)
(* any string over the token alphabet as its page token.                   *)
(***************************************************************************)
TokenAlphabet == {"0", "1", "5", ":", "-", "x"}

TokenStrings == UNION {[1..n -> TokenAlphabet] : n \in 0..MaxTokenLen}

InitCodec ==
    /\ \/ /\ source = TieSource
          /\ idList = <<>>
          /\ query = [kind |-> "interval", start |-> 5, end |-> 21]
       \/ /\ source = <<>>
          /\ idList = IdList(MaxIds)
          /\ query = [kind |-> "flat", start |-> 0, end |-> 0]
    /\ simulated = FALSE
    /\ maxResponseLength = DefaultMaxResponseLength
    /\ validation = NoValidation
    /\ InitRequestState

SubmitAnyToken ==
    /\ request = NoRequest
    /\ \E token \in TokenStrings : NewRequest(token, NoneInt, "known")
    /\ collected' = <<>>
    /\ following' = FALSE
    /\ requests' = 1

\* a request whose token the client encoded from two non-negative integers
SubmitEncoded ==
    /\ request = NoRequest
    /\ \E a \in 0..MaxValue, b \in 0..MaxValue :
           NewRequest(FormatIntervalToken(a, b), NoneInt, "known")
    /\ collected' = <<>>
    /\ following' = FALSE
    /\ requests' = 1

NextCodec ==
    \/ SubmitAnyToken
    \/ SubmitEncoded
    \/ ParseRequest
    \/ ConstructGenerator
    \/ PullNext
    \/ ReturnPage

SpecCodec == InitCodec /\ [][NextCodec]_vars

(***************************************************************************)
(* A backend whose size budget was lowered with setMaxResponseLength, over *)
(* objects of different serialized lengths.                                *)
(***************************************************************************)
SizedIntervals ==
    {[start |-> s, end |-> CoordEnd, size |-> z] : s \in {0, 1}, z \in {1, 2}}

SizedSources ==
    UNION {{seq \in [1..n -> SizedIntervals] : SortedByStart(seq)} :
             n \in 0..MaxLen}

InitBudget ==
    /\ source \in SizedSources
    /\ simulated = FALSE
    /\ idList = <<>>
    /\ query = [kind |-> "interval", start |-> 0, end |-> CoordEnd]
    /\ maxResponseLength \in 2..MaxSmallBudget
    /\ validation = NoValidation
    /\ InitRequestState

SpecBudget == InitBudget /\ [][Next]_vars

(***************************************************************************)
(* The ways a request fails before or around the iteration: payloads that  *)
(* do not parse or do not validate, reads searches over zero or several    *)
(* read groups, get requests, with either validation switched on or off.   *)
(***************************************************************************)
ReadGroupIdLists ==
    UNION {[1..n -> {"known", "unknown"}] : n \in 0..MaxReadGroups}

InitRequests ==
    /\ \/ /\ source = SimulatedSource(2)
          /\ simulated = TRUE
          /\ idList = <<>>
          /\ query = [kind |-> "interval", start |-> 0, end |-> CoordEnd]
       \/ /\ source = TieSource
          /\ simulated = FALSE
          /\ idList = <<>>
          /\ query = [kind |-> "interval", start |-> 5, end |-> 21]
       \/ /\ source = <<>>
          /\ simulated = FALSE
          /\ idList = IdList(2)
          /\ query = [kind |-> "flat", start |-> 0, end |-> 0]
    /\ maxResponseLength = DefaultMaxResponseLength
    /\ validation \in [request : BOOLEAN, response : BOOLEAN]
    /\ InitRequestState

\* a reads search with any number of read group identifiers, with or
\* without a reference
SubmitReads ==
    /\ request = NoRequest
    /\ simulated
    /\ \E ids \in ReadGroupIdLists, ref \in {Reference, None},
          token \in {None, <<"5">>, <<"0", ":", "1">>}, ps \in {NoneInt, 1} :
          Arrive([TypedRequest(token, ps, "known") EXCEPT
                    !.readGroupIds = ids, !.referenceId = ref])
    /\ collected' = <<>>
    /\ following' = FALSE
    /\ requests' = 1

\* a request whose body is not JSON, or is JSON the request class does not
\* validate
SubmitPayload ==
    /\ request = NoRequest
    /\ \E payload \in {"malformed", "invalid"}, ps \in {NoneInt, 0},
          token \in {None, <<"5">>}, id \in {"known", "unknown"} :
          Arrive([TypedRequest(token, ps, id) EXCEPT !.payload = payload])
    /\ collected' = <<>>
    /\ following' = FALSE
    /\ requests' = 1

\* runGetRequest(idMap, id_)
RunGet ==
    /\ request = NoRequest
    /\ pc = "idle"
    /\ \E id \in {"known", "unknown"} :
          /\ request' = [NoRequest EXCEPT !.kind = "get", !.containerId = id]
          /\ response' =
               [status |-> IF _safeMapQuery(id, "None") = "none" THEN "found"
                           ELSE _safeMapQuery(id, "None"),
                page |-> <<>>, nextPageToken |-> None]
    /\ UNCHANGED <<data, parked, pc, iter, currentIndex, responseBuilder,
                   nextPageToken, probe, emitted, collected, following, requests,
                   profile>>

NextRequests ==
    \/ SubmitFirst
    \/ FollowToken
    \/ SubmitForged
    \/ SubmitUnknownContainer
    \/ SubmitReads
    \/ SubmitPayload
    \/ RunGet
    \/ ParseRequest
    \/ ConstructGenerator
    \/ PullNext
    \/ ReturnPage

SpecRequests == InitRequests /\ [][NextRequests]_vars

(***************************************************************************)
(* Two clients at once: the invocation that runs takes the steps of        *)
(* runSearchRequest, and at any step it may be suspended for the other one *)
(* to run. Each invocation has its own request, builder, generator and     *)
(* nextPageToken; the backend's data is what they have in common.          *)
(***************************************************************************)
\* faulty variant of Locals: the iterator is not the invocation's own, and is
\* lost when another invocation runs
Locals_WithoutIterator ==
    [request |-> request, pc |-> pc, iter |-> BlankIterator,
     currentIndex |-> currentIndex, responseBuilder |-> responseBuilder,
     nextPageToken |-> nextPageToken, response |-> response, probe |-> probe,
     emitted |-> emitted, collected |-> collected, following |-> following,
     requests |-> requests, profile |-> profile]

\* what the running invocation owns: the locals of runSearchRequest, the
\* fields of its generator, and its client's record of the pages so far
Locals ==
    [request |-> request, pc |-> pc, iter |-> iter,
     currentIndex |-> currentIndex, responseBuilder |-> responseBuilder,
     nextPageToken |-> nextPageToken, response |-> response, probe |-> probe,
     emitted |-> emitted, collected |-> collected, following |-> following,
     requests |-> requests, profile |-> profile]

\* the running invocation is suspended and the other one runs on
Switch ==
    /\ parked' = Locals
    /\ request' = parked.request
    /\ pc' = parked.pc
    /\ iter' = parked.iter
    /\ currentIndex' = parked.currentIndex
    /\ responseBuilder' = parked.responseBuilder
    /\ nextPageToken' = parked.nextPageToken
    /\ response' = parked.response
    /\ probe' = parked.probe
    /\ emitted' = parked.emitted
    /\ collected' = parked.collected
    /\ following' = parked.following
    /\ requests' = parked.requests
    /\ profile' = parked.profile
    /\ UNCHANGED data

\* a client asks for the first page again, after other requests
SubmitAgain ==
    /\ request # NoRequest
    /\ \E ps \in PageSizes : NewRequest(None, ps, "known")
    /\ collected' = <<>>
    /\ following' = TRUE
    /\ requests' = 1

\* a client opens with a token whose anchor lies before the window
SubmitEarlierAnchor ==
    /\ request = NoRequest
    /\ query.kind = "interval"
    /\ \E a \in Coords :
          /\ a < query.start
          /\ NewRequest(FormatIntervalToken(a, 0), 1, "known")
    /\ collected' = <<>>
    /\ following' = FALSE
    /\ requests' = 1

\* two objects that end before the window [1, CoordEnd) begins
EarlierSource ==
    << [start |-> 0, end |-> 1, size |-> 1],
       [start |-> 0, end |-> 1, size |-> 1] >>

InitConcurrent ==
    /\ \/ /\ source = TieSource
          /\ idList = <<>>
          /\ query = [kind |-> "interval", start |-> 5, end |-> 21]
       \/ /\ source = EarlierSource
          /\ idList = <<>>
          /\ query = [kind |-> "interval", start |-> 1, end |-> CoordEnd]
       \/ /\ source = <<>>
          /\ idList = IdList(2)
          /\ query = [kind |-> "flat", start |-> 0, end |-> 0]
    /\ simulated = FALSE
    /\ maxResponseLength = DefaultMaxResponseLength
    /\ validation = NoValidation
    /\ InitRequestState

NextConcurrent ==
    \/ SubmitFirst
    \/ SubmitAgain
    \/ SubmitEarlierAnchor
    \/ FollowToken
    \/ ParseRequest
    \/ ConstructGenerator
    \/ PullNext
    \/ ReturnPage
    \/ Switch

SpecConcurrent == InitConcurrent /\ [][NextConcurrent]_vars

(***************************************************************************)
(* A client that pages through its query to the end: every request carries *)
(* a pageSize that passes, and each token returned is sent back. The       *)
(* server runs every request to its end, and the client does not give up.  *)
(***************************************************************************)
\* the generated sources whose objects all reach the end of the reference
ReachingSources ==
    {seq \in GeneratedSources : \A i \in 1..Len(seq) : seq[i].end = CoordEnd}

\* the backend's data: the two examples, sources of objects that reach over
\* the window from 1 to the end of the reference (starting before it, at its
\* start or inside it), simulated read groups, identifier lists
InitProgress ==
    /\ \/ /\ source \in {TieSource, EndToEndSource}
          /\ simulated = FALSE
          /\ idList = <<>>
          /\ \E w \in ExampleWindows :
               query = [kind |-> "interval", start |-> w.start, end |-> w.end]
       \/ /\ source \in ReachingSources
          /\ simulated = FALSE
          /\ idList = <<>>
          /\ query = [kind |-> "interval", start |-> 1, end |-> CoordEnd]
       \/ /\ \E n \in 0..MaxLen : source = SimulatedSource(n)
          /\ simulated = TRUE
          /\ idList = <<>>
          /\ query = [kind |-> "interval", start |-> 0, end |-> CoordEnd]
       \/ /\ source = <<>>
          /\ simulated = FALSE
          /\ \E n \in 0..MaxIds : idList = IdList(n)
          /\ query = [kind |-> "flat", start |-> 0, end |-> 0]
    /\ maxResponseLength = DefaultMaxResponseLength
    /\ validation = NoValidation
    /\ InitRequestState

\* the pageSize values that pass the check of line 516: absent or positive
PositivePageSizes == {NoneInt} \cup (1..MaxPageSize)

OpenChain ==
    /\ SubmitFirst
    /\ request'.pageSize \in PositivePageSizes

ContinueChain ==
    /\ FollowToken
    /\ request'.pageSize \in PositivePageSizes

NextProgress ==
    \/ OpenChain
    \/ ContinueChain
    \/ ParseRequest
    \/ ConstructGenerator
    \/ PullNext
    \/ ReturnPage

SpecProgress ==
    InitProgress /\ [][NextProgress]_vars /\ WF_vars(NextProgress)

(***************************************************************************)
(* Calls on one data repository object, in any order.  No search request   *)
(* runs meanwhile: the backend only reads the repository.                  *)
(***************************************************************************)
InitRepo ==
    /\ source = <<>>
    /\ simulated = FALSE
    /\ idList = <<>>
    /\ maxResponseLength = DefaultMaxResponseLength
    /\ validation = NoValidation
    /\ query = [kind |-> "flat", start |-> 0, end |-> 0]
    /\ InitInvocation
    /\ repo \in {SqlDataRepository(file) : file \in StoredFiles}
    /\ bases = NoBases

\* everything but the repository
others == <<source, simulated, idList, maxResponseLength, validation, query,
            request, pc, iter, currentIndex, responseBuilder, nextPageToken,
            response, probe, emitted, collected, following, requests,
            profile, parked, bases>>

AddDataset ==
    /\ Len(repo.added) < MaxDatasets
    /\ \E dataset \in Datasets :
         repo' = [addDataset(repo, dataset) EXCEPT
                    !.outcome = Outcome("addDataset", dataset.localId,
                                        "none", NoDataset)]
    /\ UNCHANGED others

GetDataset ==
    /\ \E id \in DatasetIds :
         repo' = [repo EXCEPT !.outcome = getDataset(repo, id)]
    /\ UNCHANGED others

GetDatasetByName ==
    /\ \E name \in DatasetNames :
         repo' = [repo EXCEPT !.outcome = getDatasetByName(repo, name)]
    /\ UNCHANGED others

\* open() with one of the two modes or another; in read mode it loads the
\* file's datasets on top of those present
Open ==
    /\ \E mode \in {MODE_READ, MODE_WRITE, "a"} :
         /\ mode = MODE_READ
              => Len(repo.added) + Len(repo.db.rows) <= MaxDatasets
         /\ repo' = open(repo, mode)
    /\ UNCHANGED others

Close ==
    /\ repo' = close(repo)
    /\ UNCHANGED others

Commit ==
    /\ _checkWriteMode(repo) => repo.db.commits < MaxCommits
    /\ repo' = commit(repo)
    /\ UNCHANGED others

Initialise ==
    /\ repo' = initialise(repo)
    /\ UNCHANGED others

NextRepo ==
    \/ AddDataset
    \/ GetDataset
    \/ GetDatasetByName
    \/ Open
    \/ Close
    \/ Commit
    \/ Initialise

SpecRepo == InitRepo /\ [][NextRepo]_vars

(***************************************************************************)
(* Chains of listReferenceBases requests over one reference.               *)
(***************************************************************************)
InitBases ==
    /\ source = <<>>
    /\ simulated = FALSE
    /\ idList = <<>>
    /\ maxResponseLength \in ChunkSizes
    /\ validation = NoValidation
    /\ query = [kind |-> "flat", start |-> 0, end |-> 0]
    /\ InitInvocation
    /\ repo = SqlDataRepository(NewFile)
    /\ \E length \in 0..MaxBases : bases = [NoBases EXCEPT !.length = length]

\* everything but the reference bases
beside == <<source, simulated, idList, maxResponseLength, validation, query,
            request, pc, iter, currentIndex, responseBuilder, nextPageToken,
            response, probe, emitted, collected, following, requests,
            profile, parked, repo>>

\* the first request of a chain: no page token
RequestBases ==
    /\ bases.responses = <<>>
    /\ \E id \in {"known", "unknown"}, start, end \in PositionArgs(bases.length) :
         LET args == BasesArgs(id, start, end, None)
         IN  /\ RangeInReference(bases.length, args)
             /\ bases' = [bases EXCEPT
                   !.args = args,
                   !.responses = <<runListReferenceBases(
                                     bases.length, maxResponseLength, args)>>]
    /\ UNCHANGED beside

\* the next request of the chain: the token of the last response and the
\* same end; whatever start the client sends
FollowBases ==
    /\ bases.responses # <<>>
    /\ bases.responses[Len(bases.responses)].nextPageToken # None
    /\ \E start \in PositionArgs(bases.length) \ {<<"x">>} :
         LET args == [bases.args EXCEPT
                        !.start = start,
                        !.pageToken =
                           bases.responses[Len(bases.responses)].nextPageToken]
         IN  bases' = [bases EXCEPT
                 !.responses = Append(@, runListReferenceBases(
                                   bases.length, maxResponseLength, args))]
    /\ UNCHANGED beside

NextBases ==
    \/ RequestBases
    \/ FollowBases

SpecBases == InitBases /\ [][NextBases]_vars

(***************************************************************************)
(* Reference runs, computed with the operators the actions use.            *)
(***************************************************************************)
\* the (object, token) pairs an IntervalIterator yields until it stops
RECURSIVE Drain(_)
Drain(it) ==
    LET step == IteratorNext(it)
    IN  IF step.stop THEN <<>>
        ELSE << <<step.obj, step.token>> >> \o Drain(step.iter)

\* the pairs of the uninterrupted iterator of the request's window
Uninterrupted ==
    Drain(_initialiseIteration([request EXCEPT !.pageToken = None]).iter)

\* the loop of runSearchRequest, run to its end over an IntervalIterator
RECURSIVE FillPage(_, _)
FillPage(builder, it) ==
    LET step == IteratorNext(it)
    IN  IF step.stop THEN builder.values
        ELSE LET added == addValue(builder, step.obj)
             IN  IF LoopBreaks(added) THEN added.values
                 ELSE FillPage(added, step.iter)

\* the page of one token-less request whose pageSize is the number of results
OneRequestPage ==
    LET total == Len(_search(request.start, request.end))
    IN  IF total = 0 THEN <<>>
        ELSE FillPage(SearchResponseBuilder(total, maxResponseLength),
                      _initialiseIteration(
                          [request EXCEPT !.pageToken = None]).iter)

\* the loop of lines 521-525 run without interruption: the response
RECURSIVE AloneLoop(_, _, _, _, _)
AloneLoop(req, builder, it, index, token) ==
    LET step == GeneratorStep(req, it, index)
    IN  IF step.error # "none"
        THEN [status |-> step.error, page |-> <<>>, nextPageToken |-> None]
        ELSE IF step.stop
        THEN [status |-> "ok", page |-> builder.values,
              nextPageToken |-> token]
        ELSE LET added == addValue(builder, step.obj)
             IN  IF LoopBreaks(added)
                 THEN [status |-> "ok", page |-> added.values,
                       nextPageToken |-> step.token]
                 ELSE AloneLoop(req, added, step.iter, step.index, step.token)

\* the response of runSearchRequest to req when nothing else runs (with
\* response validation off)
RunAlone(req) ==
    LET typed == [req EXCEPT !.pageSize = EffectivePageSize(req.pageSize)]
        made == objectGenerator(typed)
    IN  IF RequestFailure(req) # "none"
        THEN [status |-> RequestFailure(req), page |-> <<>>,
              nextPageToken |-> None]
        ELSE IF made.error # "none"
        THEN [status |-> made.error, page |-> <<>>, nextPageToken |-> None]
        ELSE AloneLoop(typed,
                       SearchResponseBuilder(typed.pageSize,
                                             maxResponseLength),
                       made.iter, NoneInt, None)

\* how many objects the chain had delivered when this request arrived
Position ==
    IF pc = "idle" /\ response.status = "ok"
    THEN Len(collected) - Len(response.page)
    ELSE Len(collected)

\* the request is being served (or has been) with a page size that passed
Served == pc \in {"iterating", "finishing", "idle"} /\ request.pageSize > 0

(***************************************************************************)
(* Claims.                                                                 *)
(***************************************************************************)
\* C1: an IntervalIterator built from the token the uninterrupted iterator
\* issued with its k-th object yields exactly the pairs the uninterrupted
\* iterator yields after position k: nothing omitted, nothing twice.
C1_ResumeContinuesStream ==
    (request.kind = "interval" /\ following /\ request.pageToken # None
       /\ Served)
    => /\ response.status \in {"none", "ok"}
       /\ Position >= 1
       /\ Position <= Len(Uninterrupted)
       /\ Uninterrupted[Position][2] = request.pageToken
       /\ emitted \o Drain(iter)
            = SubSeq(Uninterrupted, Position + 1, Len(Uninterrupted))

\* C1 witness: an iterator resumed inside a tie group that lies beyond the
\* request's start, after the re-query gave back an object already seen
C1_Witness ==
    /\ request.kind = "interval" /\ following /\ request.pageToken # None
    /\ pc = "iterating" /\ emitted = <<>>
    /\ iter.searchAnchor > request.start
    /\ iter.distanceFromAnchor >= 1
    /\ Len(Drain(iter)) >= 1
    /\ \E i \in 1..Len(_search(iter.searchAnchor, request.end)) :
          _getStart(_search(iter.searchAnchor, request.end)[i])
            < iter.searchAnchor

\* C2: the pages of a chain that starts without a token and follows each
\* nextPageToken until it is null, concatenated, are exactly the page of one
\* request with pageSize = number of results, which is the source's result.
C2_ChunkingEquivalence ==
    (request.kind = "interval" /\ following /\ pc = "idle"
       /\ response.status = "ok" /\ response.nextPageToken = None)
    => /\ collected = OneRequestPage
       /\ collected = _search(request.start, request.end)

\* C2 witness: a chain of several pages over a source with a tie, finished
C2_Witness ==
    /\ request.kind = "interval" /\ following /\ pc = "idle"
    /\ response.status = "ok" /\ response.nextPageToken = None
    /\ request.pageToken # None
    /\ Len(collected) >= 3
    /\ \E i \in 1..(Len(collected) - 1) :
          _getStart(collected[i]) = _getStart(collected[i + 1])

\* the source of the tie-handling example yields its four objects
TieCase ==
    /\ source = TieSource
    /\ _search(query.start, query.end) = <<1, 2, 3, 4>>

\* C3 as claimed: page 1 of the tie-handling example (pageSize 2) is
\* items[0], items[1] with nextPageToken "5:1", and the request with
\* pageToken "5:1" yields items[2] and items[3].
C3_TieHandlingAsClaimed ==
    (TieCase /\ pc = "idle" /\ response.status # "none"
       /\ request.pageSize = 2)
    => /\ request.pageToken = None
          => /\ response.page = <<1, 2>>
             /\ response.nextPageToken = <<"5", ":", "1">>
       /\ request.pageToken = <<"5", ":", "1">>
          => response.page = <<3, 4>>

\* C3, amended: page 1 of the tie-handling example (pageSize 2) is items[0],
\* items[1] with nextPageToken "5:2"; the request with pageToken "5:2" yields
\* items[2] (with the anchor moved to 7) and then items[3], and the two pages
\* hold every item exactly once.
C3_TieHandling ==
    (TieCase /\ pc = "idle" /\ response.status # "none"
       /\ request.pageSize = 2)
    => /\ request.pageToken = None
          => response = [status |-> "ok", page |-> <<1, 2>>,
                         nextPageToken |-> <<"5", ":", "2">>]
       /\ request.pageToken = <<"5", ":", "2">>
          => /\ response = [status |-> "ok", page |-> <<3, 4>>,
                            nextPageToken |-> None]
             /\ emitted = << <<3, <<"7", ":", "0">> >>, <<4, None>> >>
             /\ following => collected = <<1, 2, 3, 4>>

\* C3 witness: the second page of the example, asked for with "5:2"
C3_Witness ==
    /\ TieCase /\ pc = "idle" /\ response.status = "ok"
    /\ request.pageSize = 2
    /\ request.pageToken = <<"5", ":", "2">>
    /\ following /\ Position = 2

\* the source of the end-to-end example yields its five objects
EndToEndCase ==
    /\ source = EndToEndSource
    /\ _search(query.start, query.end) = <<1, 2, 3, 4, 5>>

\* C4: page 1 of the end-to-end example (pageSize 3) is items[0..2] with
\* nextPageToken "20:1"; the request with pageToken "20:1" returns
\* items[3..4] with a null nextPageToken.
C4_EndToEnd ==
    (EndToEndCase /\ pc = "idle" /\ response.status # "none"
       /\ request.pageSize = 3)
    => /\ request.pageToken = None
          => response = [status |-> "ok", page |-> <<1, 2, 3>>,
                         nextPageToken |-> <<"2", "0", ":", "1">>]
       /\ request.pageToken = <<"2", "0", ":", "1">>
          => response = [status |-> "ok", page |-> <<4, 5>>,
                         nextPageToken |-> None]

\* C4 witness: the second page of the example, asked for with "20:1"
C4_Witness ==
    /\ EndToEndCase /\ pc = "idle" /\ response.status = "ok"
    /\ request.pageSize = 3
    /\ request.pageToken = <<"2", "0", ":", "1">>
    /\ collected = <<1, 2, 3, 4, 5>>

\* no object of the result stream follows the last object of the page: the
\* generator that made the page has nothing left to yield
Exhausted ==
    IF request.kind = "interval" THEN iter.currentObject = NoObject
    ELSE ~(currentIndex < Len(idList))

\* C5: the nextPageToken of a returned page (interval or flat search) is null
\* if and only if the result stream is exhausted; for a chain that follows
\* its tokens, if and only if every result has been delivered.
C5_NullTokenIffExhausted ==
    (pc = "idle" /\ response.status = "ok")
    => /\ response.nextPageToken = None <=> Exhausted
       /\ (request.kind = "interval" /\ following)
          => (response.nextPageToken = None
                <=> Len(collected) = Len(_search(request.start, request.end)))
       /\ (request.kind = "flat" /\ following)
          => (response.nextPageToken = None <=> Len(collected) = Len(idList))

\* C5 witness: a page that is exactly full and ends the stream, after a
\* page that did not
C5_Witness ==
    /\ pc = "idle" /\ response.status = "ok" /\ following
    /\ response.nextPageToken = None
    /\ request.pageToken # None
    /\ Len(response.page) = request.pageSize

\* C6: a request whose pageSize (after the default) is not positive fails
\* with BadPageSize before anything else happens: no container resolved, no
\* token parsed, no source query, no generator.
C6_BadPageSizeBeforeIteration ==
    (request # NoRequest /\ request.pageSize # NoneInt
       /\ request.pageSize <= 0)
    => /\ pc \in {"received", "idle"}
       /\ pc = "idle" => response.status = "BadPageSize"
       /\ response.page = <<>>
       /\ probe = NoProbe
       /\ iter = BlankIterator
       /\ currentIndex = NoneInt
       /\ emitted = <<>>

\* C6 witness: a request with a page token and pageSize 0 has been rejected
C6_Witness ==
    /\ pc = "idle" /\ response.status = "BadPageSize"
    /\ request.pageSize = 0
    /\ request.pageToken # None

\* C9: a token-less request over a source whose search yields nothing returns
\* a page of zero objects with a null nextPageToken, without error.
C9_EmptySource ==
    (request.kind = "interval" /\ request.pageToken = None
       /\ request.containerId = "known"
       /\ _search(request.start, request.end) = <<>>
       /\ Served)
    => /\ response.status \in {"none", "ok"}
       /\ emitted = <<>>
       /\ pc = "idle" => response = [status |-> "ok", page |-> <<>>,
                                    nextPageToken |-> None]

\* C9 witness: the empty first page has been returned, over a source that
\* holds objects outside the window and over an empty one
C9_Witness ==
    /\ request.kind = "interval" /\ request.pageToken = None
    /\ _search(request.start, request.end) = <<>>
    /\ pc = "idle" /\ response.status = "ok"
    /\ source # <<>>

\* the fields of a token, from the places of its colons
ColonPlaces(s) == {i \in 1..Len(s) : s[i] = ":"}

FieldCount(s) == Cardinality(ColonPlaces(s)) + 1

\* the k-th field: what lies between the (k-1)-th and the k-th colon
FieldAt(s, k) ==
    LET before(i) == Cardinality({j \in ColonPlaces(s) : j < i})
    IN  SelectSeq([i \in 1..Len(s) |-> <<i, s[i]>>],
                  LAMBDA c : c[2] # ":" /\ before(c[1]) = k - 1)

\* a base-10 integer: an optional minus sign, then decimal digits
IsBase10Integer(field) ==
    LET body == IF field # <<>> /\ field[1][2] = "-" THEN Tail(field)
                ELSE field
    IN  /\ body # <<>>
        /\ \A i \in 1..Len(body) :
              body[i][2] \in {"0", "1", "2", "3", "4", "5", "6", "7", "8", "9"}

\* the number a base-10 integer denotes, read from the left
RECURSIVE Denotes(_, _)
Denotes(body, sofar) ==
    IF body = <<>> THEN sofar
    ELSE Denotes(Tail(body), 10 * sofar + DigitValue(Head(body)[2]))

Base10Value(field) ==
    IF field[1][2] = "-" THEN 0 - Denotes(Tail(field), 0)
    ELSE Denotes(field, 0)

WellFormedToken(s, arity) ==
    /\ FieldCount(s) = arity
    /\ \A k \in 1..arity : IsBase10Integer(FieldAt(s, k))

C8_ExhaustionNeverRaises ==
    (request.kind = "interval" /\ request.pageToken # None
       /\ _parsePageToken(request.pageToken, 2).error = "none")
    => response.status # "StopIteration"

\* C10 as claimed: when an object would take the page over the size budget it
\* is left out and the page's nextPageToken is the token that came with the
\* last included object, so the next page starts with the object left out.
C10_BudgetKeepsPreviousToken ==
    (request.kind = "interval" /\ pc = "idle" /\ response.status = "ok"
       /\ responseBuilder.overBudget /\ Len(emitted) >= 2)
    => /\ response.page = [i \in 1..(Len(emitted) - 1) |-> emitted[i][1]]
       /\ response.nextPageToken = emitted[Len(emitted) - 1][2]

\* the objects of the pairs the generator has yielded in this request
EmittedObjects == [i \in 1..Len(emitted) |-> emitted[i][1]]

\* C11: a returned page holds at most pageSize objects, and once the builder
\* is full no further pair is pulled from the generator: the pairs pulled in
\* a request are never more than pageSize, the page is made of exactly their
\* objects, and a full builder ends the loop.
C11_PageSizeBound ==
    (request # NoRequest /\ Served /\ response.status \in {"none", "ok"})
    => /\ Len(responseBuilder.values) <= request.pageSize
       /\ Len(emitted) <= request.pageSize
       /\ responseBuilder.values = EmittedObjects
       /\ isFull(responseBuilder) => pc \in {"finishing", "idle"}
       /\ pc = "idle"
          => /\ response.page = EmittedObjects
             /\ Len(response.page) <= request.pageSize

\* C11 witness: a page of two or more objects that is exactly full, returned
\* while the generator had more to yield
C11_Witness ==
    /\ pc = "idle" /\ response.status = "ok"
    /\ request.pageSize >= 2
    /\ Len(response.page) = request.pageSize
    /\ ~Exhausted

\* C12 as claimed: every object an interval search returns, for the first
\* page and for any well-formed two-field page token, belongs to the result
\* of search(request.start, request.end).
C12_ObjectsWithinWindow ==
    (request.kind = "interval" /\ Served)
    => \A i \in 1..Len(emitted) :
          \E j \in 1..Len(_search(request.start, request.end)) :
             _search(request.start, request.end)[j] = emitted[i][1]

\* the token of the pair the generator yielded last
LastToken == emitted[Len(emitted)][2]

\* C14: decoding the token encoded from non-negative a and b with arity 2
\* gives (a, b); a non-null token an IntervalIterator emits has exactly two
\* fields, which decode to its (searchAnchor, distanceFromAnchor) at that
\* moment; a non-null token the flat generator emits has exactly one field.
C14_TokenRoundTrip ==
    /\ \A a \in 0..MaxValue, b \in 0..MaxValue :
          request.pageToken = FormatIntervalToken(a, b)
          => /\ _parsePageToken(request.pageToken, 2)
                  = [error |-> "none", values |-> <<a, b>>]
             /\ (request.kind = "interval" /\ probe.parsed /\ emitted = <<>>)
                => /\ response.status # "BadPageToken"
                   /\ iter.searchAnchor = a
                   /\ iter.distanceFromAnchor = b
    /\ (emitted # <<>> /\ LastToken # None)
       => IF request.kind = "interval"
          THEN /\ FieldCount(LastToken) = 2
               /\ _parsePageToken(LastToken, 2)
                    = [error |-> "none",
                       values |-> <<iter.searchAnchor,
                                    iter.distanceFromAnchor>>]
          ELSE /\ FieldCount(LastToken) = 1
               /\ _parsePageToken(LastToken, 1).error = "none"

\* C14 witness: the token encoded from (5, 1) has been decoded, and the
\* iterator resumed from it has emitted "7:0" after moving its anchor
C14_Witness ==
    /\ request.kind = "interval"
    /\ request.pageToken = FormatIntervalToken(5, 1)
    /\ probe.parsed
    /\ Len(emitted) = 2 /\ LastToken = <<"7", ":", "0">>
    /\ iter.searchAnchor = 7 /\ iter.distanceFromAnchor = 0

\* the index a flat search starts at: decoded from the token, 0 without one
StartIndex ==
    IF request.pageToken = None THEN 0
    ELSE _parsePageToken(request.pageToken, 1).values[1]

\* C15 as claimed: started at the index decoded from any one-field token that
\* decodes, the flat generator emits the objects at the list indices
\* start, start+1, ... in turn, each with the token str(index+1) while more
\* remain and null for the last; no object below the start index is emitted.
C15_FlatIndicesIncrease ==
    (request.kind = "flat" /\ Served /\ request.containerId = "known"
       /\ (request.pageToken # None
             => _parsePageToken(request.pageToken, 1).error = "none"))
    => \A i \in 1..Len(emitted) :
          LET index == StartIndex + i - 1
          IN  /\ index >= 0
              /\ index < Len(idList)
              /\ emitted[i][1] = idList[index + 1]
              /\ emitted[i][2] = IF index + 1 < Len(idList)
                                 THEN IntToStr(index + 1) ELSE None

\* C16: a token-less flat search over a non-empty identifier list whose
\* pageSize is the number of objects returns every object once, in list
\* order, with a null nextPageToken.
C16_FlatWholeList ==
    (request.kind = "flat" /\ request.pageToken = None
       /\ request.containerId = "known" /\ idList # <<>>
       /\ request.pageSize = Len(idList) /\ pc = "idle")
    => response = [status |-> "ok", page |-> idList, nextPageToken |-> None]

\* C16 witness: the whole list of two or more objects came back in one page
C16_Witness ==
    /\ request.kind = "flat" /\ request.pageToken = None
    /\ Len(idList) >= 2 /\ request.pageSize = Len(idList)
    /\ pc = "idle" /\ response.status = "ok"
    /\ Len(response.page) = Len(idList)

\* the request passed json.loads, validateRequest and the pageSize check
PassedChecks == pc # "received" /\ RequestFailure(request) = "none"

\* C17: a reads search that names a reference and zero or several read
\* groups fails with NotImplemented: no read group is resolved, no source
\* query is made, nothing is emitted; only a request with exactly one read
\* group identifier reaches the iterator.
C17_ReadsNeedOneGroup ==
    /\ (request.kind = "interval" /\ request.reads
          /\ request.referenceId # None /\ Len(request.readGroupIds) # 1
          /\ PassedChecks)
       => /\ pc \in {"generator", "idle"}
          /\ pc = "idle" => response.status = "NotImplemented"
          /\ probe = NoProbe
          /\ iter = BlankIterator
          /\ emitted = <<>>
    /\ (request.reads /\ (probe # NoProbe \/ pc \in {"iterating", "finishing"}))
       => Len(request.readGroupIds) = 1

\* C17 witness: a reads search over two read groups, the first of which the
\* backend holds, has been rejected
C17_Witness ==
    /\ request.reads /\ request.referenceId # None
    /\ Len(request.readGroupIds) = 2 /\ request.readGroupIds[1] = "known"
    /\ pc = "idle" /\ response.status = "NotImplemented"

\* the request names a container the backend does not hold, and nothing
\* raised before the container is looked up
Unresolvable ==
    /\ PassedChecks
    /\ IF request.kind = "interval" /\ request.reads
       THEN /\ request.referenceId # None
            /\ Len(request.readGroupIds) = 1
            /\ request.readGroupIds[1] # "known"
       ELSE request.containerId # "known"

\* the exception class the search's lookup hands to _safeMapQuery
LookupClass ==
    IF request.kind = "flat" THEN "DatasetNotFound"
    ELSE IF request.reads THEN "ReadGroupNotFound"
    ELSE "VariantSetNotFound"

GeneratorFailures ==
    NotFoundKind \cup {"NotImplemented", "UnmappedReadsNotSupported",
                       "BadPageToken"}

\* C19: runSearchRequest checks in a fixed order: a body that is not JSON
\* gives InvalidJson whatever else is wrong; then, with request validation
\* on, RequestValidationFailure; then BadPageSize; the generator's failures
\* come only for a payload that passed with a positive pageSize;
\* ResponseValidationFailure comes only once the page is assembled; with a
\* validation switched off its failure is never raised.
C19_FailureOrder ==
    /\ (request.payload = "malformed" /\ pc = "idle")
       => response.status = "InvalidJson" /\ probe = NoProbe
    /\ (request.payload = "invalid" /\ validation.request /\ pc = "idle")
       => response.status = "RequestValidationFailure" /\ probe = NoProbe
    /\ response.status = "BadPageSize"
       => /\ request.payload # "malformed"
          /\ ~(validation.request /\ request.payload = "invalid")
          /\ probe = NoProbe
    /\ response.status \in GeneratorFailures /\ request.kind # "get"
       => /\ request.payload # "malformed"
          /\ ~(validation.request /\ request.payload = "invalid")
          /\ request.pageSize > 0
    /\ response.status = "ResponseValidationFailure"
       => /\ validation.response
          /\ request.pageSize > 0
          /\ probe.constructed
          /\ LoopBreaks(responseBuilder) \/ Exhausted
          /\ responseBuilder.values = EmittedObjects
    /\ ~validation.request => response.status # "RequestValidationFailure"
    /\ ~validation.response => response.status # "ResponseValidationFailure"

\* C19 witness: with request validation on, a body that does not validate
\* and that also carries pageSize 0, a malformed token and an unknown
\* container has failed with RequestValidationFailure
C19_Witness ==
    /\ validation.request /\ request.payload = "invalid"
    /\ request.pageSize = 0 /\ request.pageToken = <<"5">>
    /\ request.containerId = "unknown"
    /\ pc = "idle" /\ response.status = "RequestValidationFailure"

\* C13: two requests without a page token that are the same in container,
\* start, end and pageSize get the same response (objects, order,
\* nextPageToken), wherever the two stand among the other requests of their
\* clients and however the two invocations are interleaved.
C13_FirstPageIdempotent ==
    (pc = "idle" /\ parked.pc = "idle"
       /\ request # NoRequest /\ request.pageToken = None
       /\ parked.request = request)
    => parked.response = response

\* C13 witness: two clients hold the same first page of two or more objects,
\* with a token for the next
C13_Witness ==
    /\ pc = "idle" /\ parked.pc = "idle"
    /\ request.pageToken = None /\ parked.request = request
    /\ response.status = "ok" /\ parked.response = response
    /\ Len(response.page) >= 2 /\ response.nextPageToken # None

\* C20: whatever the interleaving of two invocations' steps, each returns
\* exactly the response it would return when run alone.
C20_NoInterference ==
    /\ (pc = "idle" /\ request # NoRequest)
       => response = RunAlone(request)
    /\ (parked.pc = "idle" /\ parked.request # NoRequest)
       => parked.response = RunAlone(parked.request)

\* C20 witness: an invocation has returned a page of two or more objects
\* while the other one, resumed from a token, is in the middle of its loop
C20_Witness ==
    /\ pc = "idle" /\ response.status = "ok" /\ Len(response.page) >= 2
    /\ parked.pc = "iterating" /\ Len(parked.emitted) = 1
    /\ parked.request.pageToken # None

\* the result at 1-based position k of a result sequence, absent beyond it
ResultAt(results, k) ==
    IF k >= 1 /\ k <= Len(results) THEN results[k] ELSE NoObject

Max(a, b) == IF a > b THEN a ELSE b

\* a token-less interval request whose iterator has just been constructed
FreshlyInitialised ==
    /\ request.kind = "interval" /\ request.pageToken = None
    /\ pc = "iterating" /\ emitted = <<>>

\* C23: initialisation without a token queries the source with
\* (request.start, request.end), buffers the first two results as current and
\* next, and over a non-empty result sets distanceFromAnchor to 0 and
\* searchAnchor to max(request.start, start of the first result).
C23_InitialAnchor ==
    FreshlyInitialised
    => LET results == _search(request.start, request.end)
       IN  /\ probe.queried /\ ~probe.parsed
           /\ iter.currentObject = ResultAt(results, 1)
           /\ iter.searchIterator = SubSeq(results, 3, Len(results))
           /\ results # <<>>
              => /\ iter.nextObject = ResultAt(results, 2)
                 /\ iter.distanceFromAnchor = 0
                 /\ iter.searchAnchor
                      = Max(request.start, _getStart(results[1]))
                 /\ _getStart(results[1]) > request.start
                    => iter.searchAnchor = _getStart(results[1])
                 /\ _getStart(results[1]) <= request.start
                    => iter.searchAnchor = request.start

\* C23 witness: an iterator initialised over a window whose first result
\* starts before the request's start, with a second result buffered
C23_Witness ==
    /\ FreshlyInitialised
    /\ iter.currentObject # NoObject /\ iter.nextObject # NoObject
    /\ _getStart(iter.currentObject) < request.start
    /\ iter.searchAnchor = request.start
    /\ iter.distanceFromAnchor = 0

\* the anchor and the skip count of the request's page token
TokenAnchor == _parsePageToken(request.pageToken, 2).values[1]

TokenSkip == _parsePageToken(request.pageToken, 2).values[2]

\* an interval request with a well-formed token, past the generator's
\* construction (or failed in it)
Resumed ==
    /\ request.kind = "interval" /\ request.containerId = "known"
    /\ request.pageToken # None
    /\ _parsePageToken(request.pageToken, 2).error = "none"
    /\ Served

\* the objects an iterator has yet to yield
Remaining(it) == [i \in 1..Len(Drain(it)) |-> Drain(it)[i][1]]

\* the results of the re-query that start at the anchor or after it
Kept(anchor) ==
    SelectSeq(_search(anchor, request.end),
              LAMBDA obj : _getStart(obj) >= anchor)

\* one of the first skip results kept does not start at the anchor
OffAnchor(anchor, skip) ==
    \E i \in 1..Len(Kept(anchor)) :
       i <= skip /\ _getStart(Kept(anchor)[i]) # anchor

\* C24: resumed with a token "anchor:skip" whose anchor is beyond
\* request.start, the iterator re-queries with (anchor, request.end), never
\* emits a result that starts before the anchor, and skips exactly skip of
\* the others, which all start at the anchor, so that the result after them
\* is currentObject; when one of the skipped ones starts elsewhere the
\* request fails with an AssertionError and no object is emitted.
C24_ResumeBeyondStart ==
    (Resumed /\ TokenAnchor > request.start)
    => /\ probe.queried
       /\ \A i \in 1..Len(emitted) : _getStart(emitted[i][1]) >= TokenAnchor
       /\ OffAnchor(TokenAnchor, TokenSkip)
          => /\ pc = "idle" /\ response.status = "AssertionError"
             /\ response.page = <<>> /\ emitted = <<>>
       /\ (~OffAnchor(TokenAnchor, TokenSkip)
             /\ Len(Kept(TokenAnchor)) > TokenSkip)
          => /\ response.status \in {"none", "ok"}
             /\ EmittedObjects \o Remaining(iter)
                  = SubSeq(Kept(TokenAnchor), TokenSkip + 1,
                           Len(Kept(TokenAnchor)))
             /\ (pc = "iterating" /\ emitted = <<>>)
                => /\ iter.currentObject = Kept(TokenAnchor)[TokenSkip + 1]
                   /\ iter.nextObject
                        = ResultAt(Kept(TokenAnchor), TokenSkip + 2)
                   /\ iter.searchAnchor = TokenAnchor
                   /\ iter.distanceFromAnchor = TokenSkip

\* C24 witness: a page returned for a token whose anchor is beyond the
\* request's start, after a result that starts before the anchor was
\* discarded and one that starts at the anchor was skipped
C24_Witness ==
    /\ Resumed /\ TokenAnchor > request.start /\ TokenSkip >= 1
    /\ pc = "idle" /\ response.status = "ok" /\ response.page # <<>>
    /\ Len(Kept(TokenAnchor)) < Len(_search(TokenAnchor, request.end))
    /\ response.page[1] = Kept(TokenAnchor)[TokenSkip + 1]

\* a request resumed at its own start has just built its iterator
ResumedAtStart ==
    /\ Resumed /\ TokenAnchor = request.start /\ TokenSkip >= 0
    /\ Len(_search(TokenAnchor, request.end)) > TokenSkip

\* C25: resumed with a token "anchor:skip" whose anchor is request.start (skip
\* a count, 0 or more, below the number of results), the iterator re-queries
\* with (anchor, request.end) and skips exactly skip results whatever their
\* starts: currentObject is the result at 0-based position skip, nextObject
\* the one at position skip + 1 (or absent), and (searchAnchor,
\* distanceFromAnchor) = (anchor, skip).
C25_ResumeAtStart ==
    ResumedAtStart
    => LET results == _search(TokenAnchor, request.end)
       IN  /\ probe.queried
           /\ response.status \in {"none", "ok"}
           /\ EmittedObjects \o Remaining(iter)
                = SubSeq(results, TokenSkip + 1, Len(results))
           /\ (pc = "iterating" /\ emitted = <<>>)
              => /\ iter.currentObject = results[TokenSkip + 1]
                 /\ iter.nextObject = ResultAt(results, TokenSkip + 2)
                 /\ iter.searchIterator
                      = SubSeq(results, TokenSkip + 3, Len(results))
                 /\ iter.searchAnchor = TokenAnchor
                 /\ iter.distanceFromAnchor = TokenSkip

\* C25 witness: an iterator resumed at the request's start that skipped a
\* result starting before the request's start and holds another such result
\* as currentObject
C25_Witness ==
    /\ ResumedAtStart /\ TokenSkip >= 1
    /\ pc = "iterating" /\ emitted = <<>>
    /\ _getStart(_search(TokenAnchor, request.end)[1]) < request.start
    /\ _getStart(iter.currentObject) < request.start
    /\ iter.nextObject # NoObject

\* an interval request whose iterator was constructed and has not failed
Iterating ==
    /\ request.kind = "interval" /\ Served /\ probe.constructed
    /\ response.status \in {"none", "ok"}

\* the iterator as its constructor left it
Constructed == IntervalIterator(request).iter

\* (searchAnchor, distanceFromAnchor) after the i-th next() of the request
\* that yielded a token: the fields the token carries; before the first
\* next(), the constructor's
StateAfter(i) ==
    IF i = 0
    THEN <<Constructed.searchAnchor, Constructed.distanceFromAnchor>>
    ELSE _parsePageToken(emitted[i][2], 2).values

\* the lookahead object of the i-th next(): the object yielded after the i-th
LookaheadAt(i) ==
    IF i < Len(emitted) THEN emitted[i + 1][1] ELSE iter.currentObject

\* C26: on every next() with a lookahead object, with s its start: if s is
\* beyond searchAnchor the anchor becomes s and the distance 0, otherwise the
\* anchor stays and the distance grows by exactly 1; the token yielded with
\* currentObject encodes the state after the update. So the anchor never
\* decreases, and every token's anchor is max(initial anchor, start of the
\* next object to be emitted).
C26_StepRule ==
    Iterating
    => \A i \in 1..Len(emitted) :
          LookaheadAt(i) # NoObject
          => LET s == _getStart(LookaheadAt(i))
                 before == StateAfter(i - 1)
             IN  /\ emitted[i][2] # None
                 /\ _parsePageToken(emitted[i][2], 2).error = "none"
                 /\ s > before[1] => StateAfter(i) = <<s, 0>>
                 /\ s <= before[1]
                    => StateAfter(i) = <<before[1], before[2] + 1>>
                 /\ StateAfter(i)[1] >= before[1]
                 /\ StateAfter(i)[1] = Max(Constructed.searchAnchor, s)
                 /\ i = Len(emitted)
                    => /\ iter.searchAnchor = StateAfter(i)[1]
                       /\ iter.distanceFromAnchor = StateAfter(i)[2]

\* C26 witness: an iterator that has yielded three objects: with the first
\* the distance grew, with the second the anchor moved and the distance fell
\* to 0, with the third the distance grew again
C26_Witness ==
    /\ Iterating /\ pc = "iterating" /\ Len(emitted) = 3
    /\ iter.currentObject # NoObject
    /\ StateAfter(1)[1] = StateAfter(0)[1]
    /\ StateAfter(1)[2] = StateAfter(0)[2] + 1
    /\ StateAfter(2)[1] > StateAfter(1)[1]
    /\ StateAfter(2)[2] = 0
    /\ StateAfter(3) = <<StateAfter(2)[1], 1>>

\* the objects of the logical result stream the client has been given, up to
\* the k-th pair of this request
Delivered(k) ==
    SubSeq(collected, 1, Position) \o SubSeq(EmittedObjects, 1, k)

\* how many of the objects start at the coordinate
StartingAt(objects, coordinate) ==
    Cardinality({i \in 1..Len(objects) : _getStart(objects[i]) = coordinate})

\* an object's start, or the request's start when it starts before it: the
\* coordinate the iterator places the object at
PlacedStart(obj) == Max(_getStart(obj), request.start)

\* how many of the objects the iterator places at the coordinate
PlacedAt(objects, coordinate) ==
    Cardinality({i \in 1..Len(objects) : PlacedStart(objects[i]) = coordinate})

\* a request of a chain that opened without a token and followed its tokens,
\* with its iterator constructed
IteratingInChain == Iterating /\ following

\* C27 as claimed: in every iterator state (with a current object) and in
\* every issued token, distanceFromAnchor is the number of already-emitted
\* objects of the logical result stream whose start equals searchAnchor, and
\* the lookahead object's start is never below searchAnchor.
C27_TieGroupCountAsClaimed ==
    IteratingInChain
    => /\ iter.currentObject # NoObject
          => iter.distanceFromAnchor
               = StartingAt(Delivered(Len(emitted)), iter.searchAnchor)
       /\ \A i \in 1..Len(emitted) :
             emitted[i][2] # None
             => StateAfter(i)[2] = StartingAt(Delivered(i), StateAfter(i)[1])
       /\ (iter.currentObject # NoObject /\ iter.nextObject # NoObject)
          => _getStart(iter.nextObject) >= iter.searchAnchor

\* C27, amended: with every object that starts before request.start placed
\* at request.start, in every iterator state with a current object and in
\* every issued token distanceFromAnchor is the number of already-emitted
\* objects of the logical result stream placed at searchAnchor, and the
\* lookahead object is never placed below searchAnchor.
C27_TieGroupCount ==
    IteratingInChain
    => /\ iter.currentObject # NoObject
          => iter.distanceFromAnchor
               = PlacedAt(Delivered(Len(emitted)), iter.searchAnchor)
       /\ \A i \in 1..Len(emitted) :
             emitted[i][2] # None
             => StateAfter(i)[2] = PlacedAt(Delivered(i), StateAfter(i)[1])
       /\ (iter.currentObject # NoObject /\ iter.nextObject # NoObject)
          => PlacedStart(iter.nextObject) >= iter.searchAnchor

\* C27 witness: the second request of a chain has yielded an object and holds
\* a distance of 2 from an anchor at the request's start, after objects that
\* start before the request's start were delivered
C27_Witness ==
    /\ IteratingInChain /\ request.pageToken # None
    /\ pc = "iterating" /\ Len(emitted) = 1
    /\ iter.currentObject # NoObject
    /\ iter.searchAnchor = request.start
    /\ iter.distanceFromAnchor = 2
    /\ StartingAt(Delivered(1), iter.searchAnchor) = 0

\* the results the iterator has taken from the source's search so far
Pulled ==
    Len(_search(request.start, request.end)) - Len(iter.searchIterator)

\* C28: over a source whose search yields N objects a token-less iterator
\* yields exactly N pairs, in source order, and then signals the end; with no
\* current object next() signals the end and changes nothing, however often
\* it is called; the iterator holds the two objects after the yielded ones
\* and has pulled at most two results beyond those.
C28_FiniteIteration ==
    (Iterating /\ request.pageToken = None)
    => LET results == _search(request.start, request.end)
           k == Len(emitted)
       IN  /\ k <= Len(results)
           /\ EmittedObjects = SubSeq(results, 1, k)
           /\ \A i \in 1..k : emitted[i][2] = None <=> i = Len(results)
           /\ iter.currentObject = ResultAt(results, k + 1)
           /\ results # <<>> => iter.nextObject = ResultAt(results, k + 2)
           /\ Pulled <= k + 2
           /\ iter.currentObject = NoObject <=> k = Len(results)
           /\ iter.currentObject = NoObject
              => IteratorNext(iter)
                   = [stop |-> TRUE, obj |-> NoObject, token |-> None,
                      iter |-> iter]
           /\ (pc \in {"finishing", "idle"} /\ ~isFull(responseBuilder))
              => k = Len(results)

\* C28 witness: a token-less iterator over three or more results has yielded
\* them all and next() has signalled the end to a loop whose page had room
C28_Witness ==
    /\ Iterating /\ request.pageToken = None
    /\ pc = "finishing" /\ ~isFull(responseBuilder)
    /\ Len(emitted) >= 3
    /\ Len(emitted) = Len(_search(request.start, request.end))
    /\ iter.currentObject = NoObject
    /\ IteratorNext(iter).stop

\* C30: over an unchanged identifier list and for any pageSize of 1 or more,
\* the chain that starts without a token and follows nextPageToken returns
\* the listed objects in list order, each exactly once by the time the token
\* is null; the token of a page is the list index of the first object of the
\* next page.
C30_FlatChunking ==
    (request.kind = "flat" /\ following /\ pc = "idle"
       /\ response.status # "none" /\ request.pageSize > 0)
    => /\ response.status = "ok"
       /\ Len(response.page) >= 1 \/ idList = <<>>
       /\ collected = SubSeq(idList, 1, Len(collected))
       /\ request.pageToken # None
          => _parsePageToken(request.pageToken, 1).values = <<Position>>
       /\ response.nextPageToken # None
          => /\ Len(collected) < Len(idList)
             /\ response.nextPageToken = IntToStr(Len(collected))
             /\ ListItem(idList, ParseInt(response.nextPageToken))
                  = idList[Len(collected) + 1]
       /\ response.nextPageToken = None => collected = idList

\* C30 witness: the third page of a chain with pageSize 1 over a list of
\* three objects has been returned, with a null token
C30_Witness ==
    /\ request.kind = "flat" /\ following /\ pc = "idle"
    /\ response.status = "ok" /\ response.nextPageToken = None
    /\ request.pageSize = 1 /\ request.pageToken = IntToStr(2)
    /\ Len(idList) = 3 /\ collected = idList

\* the number of results of the client's query
ResultCount ==
    IF query.kind = "interval" THEN Len(_search(query.start, query.end))
    ELSE Len(idList)

\* a request of the client's chain has been answered
Answered == requests >= 1 /\ pc = "idle" /\ response.status # "none"

\* every answered request of the chain returned a page, with at least one
\* object when results remained, so the requests made are never more than
\* the objects delivered, nor more than the results
PagesAdvance ==
    Answered
    => /\ response.status = "ok"
       /\ Position < ResultCount => Len(response.page) >= 1
       /\ Len(collected) <= ResultCount
       /\ ResultCount >= 1 => requests <= Len(collected)
       /\ requests <= Max(ResultCount, 1)
       /\ response.nextPageToken # None => requests < ResultCount

\* the chain has ended with a null token and every result delivered
ChainDone ==
    /\ Answered /\ response.status = "ok" /\ response.nextPageToken = None
    /\ Len(collected) = ResultCount

\* C29: every page returned while results remain holds at least one object,
\* and a client that starts without a token and keeps sending back the
\* token it is given, over unchanged data, is given a null token after at
\* most N requests for N results (one request when there is none).
C29_Progress == []PagesAdvance /\ <>ChainDone

\* C29 witness: a chain over three results ended with its third request,
\* each page holding one object
C29_Witness ==
    /\ ChainDone /\ requests = 3 /\ ResultCount = 3
    /\ request.pageSize = 1 /\ Len(response.page) = 1

\* the places in the list of added datasets that hold the name
AddedUnder(name) ==
    {i \in 1..Len(repo.added) : repo.added[i].localId = name}

Latest(places) == CHOOSE i \in places : \A j \in places : j <= i

C22_WriteModeOnly ==
    /\ repo._openMode # MODE_WRITE
         => /\ commit(repo).outcome.error = "ValueError"
            /\ commit(repo).db = repo.db
            /\ initialise(repo).outcome.error = "ValueError"
            /\ initialise(repo).db = repo.db
    /\ (repo.outcome.call \in {"commit", "initialise"}
          /\ repo.outcome.error = "none")
         => repo._openMode = MODE_WRITE
    /\ (repo.outcome.call \in {"commit", "initialise"}
          /\ repo._openMode # MODE_WRITE)
         => repo.outcome.error = "ValueError"

\* a repository that committed in write mode and was closed raised
\* ValueError at the next commit
C22_Witness ==
    /\ repo.wasOpened
    /\ repo._openMode = "None"
    /\ repo.db.commits >= 1
    /\ repo.outcome = Outcome("commit", "", "ValueError", NoDataset)

\* the range a chain of listReferenceBases requests asks for
FirstStart == _parseIntegerArgument(bases.args.start, 0).value

RangeEnd == _parseIntegerArgument(bases.args.end, bases.length).value

\* the bases of the reference at positions from..to-1
BasesAt(from, to) ==
    [i \in 1..(to - from) |-> ReferenceSequence(bases.length)[from + i]]

RECURSIVE Concatenated(_)
Concatenated(responses) ==
    IF responses = <<>> THEN <<>>
    ELSE Head(responses).sequence \o Concatenated(Tail(responses))

Min(a, b) == IF a <= b THEN a ELSE b

\* the chain's first request was answered
BasesAnswered ==
    /\ bases.responses # <<>>
    /\ bases.responses[1].error = "none"

\* C31: in a chain of listReferenceBases requests that follows the
\* tokens with the same end, the first response has offset = start and
\* the bases [start, min(end, start + chunkSize)); every response holds
\* the bases [offset, min(end, offset + chunkSize)) and the token
\* str(offset + chunkSize) exactly when offset + chunkSize < end, null
\* otherwise; each response begins where the one before it ended; at a
\* null token the responses together are the bases [start, end); and a
\* range of at most chunkSize bases comes whole in one response.
C31_BasesTile ==
    BasesAnswered =>
      LET rs == bases.responses
          c == maxResponseLength
      IN  /\ rs[1].offset = FirstStart
          /\ rs[1].sequence = BasesAt(FirstStart, Min(RangeEnd, FirstStart + c))
          /\ \A k \in 1..Len(rs) :
               /\ rs[k].error = "none"
               /\ rs[k].sequence =
                    BasesAt(rs[k].offset, Min(RangeEnd, rs[k].offset + c))
               /\ rs[k].nextPageToken =
                    IF rs[k].offset + c < RangeEnd
                    THEN IntToStr(rs[k].offset + c) ELSE None
          /\ \A k \in 2..Len(rs) :
               /\ rs[k].offset = rs[k - 1].offset + c
               /\ rs[k].offset = rs[k - 1].offset + Len(rs[k - 1].sequence)
          /\ rs[Len(rs)].nextPageToken = None
               => Concatenated(rs) = BasesAt(FirstStart, RangeEnd)
          /\ RangeEnd - FirstStart <= c
               => /\ Len(rs) = 1
                  /\ rs[1].nextPageToken = None
                  /\ rs[1].sequence = BasesAt(FirstStart, RangeEnd)

\* a chain of three or more responses that ended with a chunk shorter
\* than chunkSize
C31_Witness ==
    /\ BasesAnswered
    /\ Len(bases.responses) >= 3
    /\ bases.responses[Len(bases.responses)].nextPageToken = None
    /\ Len(bases.responses[Len(bases.responses)].sequence) \in
         1..(maxResponseLength - 1)

\* an invocation of runSearchRequest has finished: it returned a page or
\* an exception left it
InvocationFinished ==
    /\ request.kind \notin {"none", "get"}
    /\ pc = "idle"
    /\ response.status # "none"

\* C32: every invocation of runSearchRequest calls startProfile once at
\* its start, and by the time it has finished, whether with a page or
\* with InvalidJson, a validation failure, BadPageSize, BadPageToken or
\* a not-found exception, it has called endProfile once.
C32_HooksPaired ==
    /\ (request.kind \notin {"none", "get"} /\ pc # "received")
         => profile.started = 1
    /\ profile.ended <= profile.started
    /\ InvocationFinished => profile.ended = 1

=============================================================================
